---- MODULE Spec2Model ----
(***************************************************************************)
(* Verification model of the PropNinja quantitative core:                  *)
(*   src/bot.py            Telegram bot: compute_baseline, gauss_pair,     *)
(*                         monte_carlo, compute_ev, run_matchup_analysis   *)
(*   src/requirements.txt  Flask dashboard: classify_leg_risk,             *)
(*                         fractional_kelly, run_quant_engine,             *)
(*                         calculate_parlay, build_optimal_parlay, the     *)
(*                         odds arithmetic, the routes and the page's      *)
(*                         parlay slip                                     *)
(*                                                                         *)
(* Numbers.  The program computes with Python floats.  The model computes  *)
(* with exact rationals over arbitrary-size naturals (sequences of base    *)
(* 10^4 limbs), because TLC integers are 32 bits wide.  Where the program  *)
(* rounds a quotient to a double and then to decimals (the reported win    *)
(* probabilities, the stakes and EVs of compute_ev and kelly), the model    *)
(* rounds to the nearest double too (Fl), so that the decimal rounding     *)
(* sees the value the program sees.                                        *)
(***************************************************************************)
EXTENDS Integers, Sequences, FiniteSets, TLC

\* call and ret are the operation under way and what it returned, rng the
\* process's random generator, session the dashboard's session cookie and
\* page the state of the dashboard page in the browser
VARIABLES call, ret, rng, session, page

vars == <<call, ret, rng, session, page>>

-----------------------------------------------------------------------------
(* Arbitrary-size naturals: little-endian sequences of limbs in 0..Radix-1, *)
(* without high zero limbs; <<>> is zero.                                   *)

Radix == 10 ^ 4

Max(S) == CHOOSE x \in S : \A y \in S : y <= x

\* the i-th limb, zero beyond the top
Limb(a, i) == IF i \in 1..Len(a) THEN a[i] ELSE 0

\* a without its high zero limbs
BigTrim(a) ==
    LET nz == {i \in 1..Len(a) : a[i] # 0}
    IN  IF nz = {} THEN <<>> ELSE SubSeq(a, 1, Max(nz))

\* a natural below Radix^3 as limbs, and back
NatToBig(n) == BigTrim(<<n % Radix, (n \div Radix) % Radix, n \div (Radix * Radix)>>)

BigToNat(a) == Limb(a, 1) + Radix * Limb(a, 2) + Radix * Radix * Limb(a, 3)

\* a + b: limb i receives a carry when some lower limb overflows and every
\* limb between the two is full
BigAdd(a, b) ==
    LET n        == IF Len(a) > Len(b) THEN Len(a) ELSE Len(b)
        sum(i)   == Limb(a, i) + Limb(b, i)
        carry(i) == IF \E j \in 1..(i - 1) :
                          /\ sum(j) >= Radix
                          /\ \A k \in (j + 1)..(i - 1) : sum(k) = Radix - 1
                    THEN 1 ELSE 0
    IN  BigTrim([i \in 1..(n + 1) |-> (sum(i) + carry(i)) % Radix])

\* a - b for a >= b, borrowing as BigAdd carries
BigSub(a, b) ==
    LET borrow(i) == IF \E j \in 1..(i - 1) :
                           /\ a[j] < Limb(b, j)
                           /\ \A k \in (j + 1)..(i - 1) : a[k] = Limb(b, k)
                     THEN 1 ELSE 0
    IN  BigTrim([i \in 1..Len(a) |->
                    (a[i] - Limb(b, i) - borrow(i) + Radix) % Radix])

\* -1, 0, 1 as a < b, a = b, a > b
BigCmp(a, b) ==
    IF Len(a) > Len(b) THEN 1
    ELSE IF Len(a) < Len(b) THEN -1
    ELSE LET diff == {i \in 1..Len(a) : a[i] # b[i]}
         IN  IF diff = {} THEN 0
             ELSE IF a[Max(diff)] > b[Max(diff)] THEN 1 ELSE -1

\* a * s for a limb s: the low and the high halves of the limb products
BigMulLimb(a, s) ==
    BigAdd([i \in 1..Len(a) |-> (a[i] * s) % Radix],
           [i \in 1..(Len(a) + 1) |->
               IF i = 1 THEN 0 ELSE (a[i - 1] * s) \div Radix])

\* the sum of a sequence of integers, added pairwise
RECURSIVE IntSum(_)
IntSum(s) ==
    IF Len(s) = 0 THEN 0
    ELSE IF Len(s) = 1 THEN s[1]
    ELSE LET h == Len(s) \div 2
         IN  IntSum(SubSeq(s, 1, h)) + IntSum(SubSeq(s, h + 1, Len(s)))

\* the limbs of a number given as columns col[k] * Radix^(k-1), each column
\* below Radix^3
Spread(col) ==
    BigAdd(BigAdd([k \in DOMAIN col |-> col[k] % Radix],
                  [k \in 1..(Len(col) + 1) |->
                      IF k = 1 THEN 0 ELSE (col[k - 1] \div Radix) % Radix]),
           [k \in 1..(Len(col) + 2) |->
               IF k <= 2 THEN 0 ELSE col[k - 2] \div (Radix * Radix)])

\* a * b by columns: column k sums the limb products a[i] * b[k + 1 - i]
BigMul(a, b) ==
    IF a = <<>> \/ b = <<>>
    THEN <<>>
    ELSE LET lo(k) == IF k > Len(b) THEN k + 1 - Len(b) ELSE 1
             hi(k) == IF k > Len(a) THEN Len(a) ELSE k
         IN  Spread([k \in 1..(Len(a) + Len(b) - 1) |->
                        IntSum([j \in 1..(hi(k) - lo(k) + 1) |->
                                   a[lo(k) + j - 1] * b[k + 2 - lo(k) - j]])])

\* a div s and a mod s for a limb s # 0: schoolbook short division, the limbs
\* i..1 of a still to bring down and rem the running remainder
RECURSIVE BigDivLimbRec(_, _, _, _, _)
BigDivLimbRec(a, s, i, q, rem) ==
    IF i = 0
    THEN [q |-> BigTrim(q), r |-> NatToBig(rem)]
    ELSE LET v == rem * Radix + a[i]
         IN  IF v < s
             THEN BigDivLimbRec(a, s, i - 1, <<0>> \o q, v)
             ELSE BigDivLimbRec(a, s, i - 1, <<v \div s>> \o q, v % s)

BigDivLimb(a, s) == BigDivLimbRec(a, s, Len(a), <<>>, 0)

\* the quotient digit r div b for r < b * Radix and a divisor b whose top
\* limb is at least Radix div 2: the estimate from the top limbs is at most
\* two too large
QDigit(r, b) ==
    IF BigCmp(r, b) < 0
    THEN 0
    ELSE LET t   == Len(b)
             top == Limb(r, t + 1) * Radix + r[t]
             e0  == top \div b[t]
             est == IF e0 > Radix - 1 THEN Radix - 1 ELSE e0
         IN  IF BigCmp(BigMulLimb(b, est), r) <= 0 THEN est
             ELSE IF BigCmp(BigMulLimb(b, est - 1), r) <= 0 THEN est - 1
             ELSE est - 2

\* long division of a by a normalised b, the limbs i..1 of a still to bring
\* down and r the running remainder
RECURSIVE BigDivRec(_, _, _, _, _)
BigDivRec(a, b, i, q, r) ==
    IF i = 0
    THEN [q |-> BigTrim(q), r |-> r]
    ELSE LET r0 == BigTrim(<<a[i]>> \o r)
             qd == QDigit(r0, b)
         IN  IF qd = 0
             THEN BigDivRec(a, b, i - 1, <<0>> \o q, r0)
             ELSE BigDivRec(a, b, i - 1, <<qd>> \o q,
                            BigSub(r0, BigMulLimb(b, qd)))

BigDivLong(a, b) == BigDivRec(a, b, Len(a), <<>>, <<>>)

\* the quotient and the remainder of a by b from those of a * f by b * f
Unscale(res, f) == [q |-> res.q, r |-> BigDivLimb(res.r, f).q]

\* a by b, scaled by the limb f that brings the top limb of b to Radix div 2
BigDivNorm(a, b, f) == Unscale(BigDivLong(BigMulLimb(a, f), BigMulLimb(b, f)), f)

\* [q |-> a div b, r |-> a mod b] for b # 0
BigDivMod(a, b) ==
    IF BigCmp(a, b) < 0 THEN [q |-> <<>>, r |-> a]
    ELSE IF Len(b) = 1 THEN BigDivLimb(a, b[1])
    ELSE BigDivNorm(a, b, Radix \div (b[Len(b)] + 1))

\* base ^ k for a limb base
RECURSIVE BigPow(_, _)
BigPow(base, k) ==
    IF k = 0 THEN <<1>> ELSE BigMulLimb(BigPow(base, k - 1), base)

\* 2 ^ k, thirteen bits at a time
RECURSIVE Pow2(_)
Pow2(k) == IF k < 13 THEN <<2 ^ k>> ELSE BigMulLimb(Pow2(k - 13), 8192)

\* Euclid's algorithm, two steps at a time
RECURSIVE GCD(_, _)
GCD(a, b) ==
    IF b = 0 THEN a
    ELSE IF a % b = 0 THEN b
    ELSE GCD(a % b, b % (a % b))

-----------------------------------------------------------------------------
(* Exact rationals: [sg |-> sign, n |-> |numerator|, d |-> denominator].    *)
(* A value whose numerator and denominator fit two limbs is kept in lowest  *)
(* terms; zero is [sg |-> 0, n |-> <<>>, d |-> <<1>>].                      *)

RNorm(sg, n, d) ==
    IF sg = 0 \/ n = <<>>
    THEN [sg |-> 0, n |-> <<>>, d |-> <<1>>]
    ELSE IF Len(n) <= 2 /\ Len(d) <= 2
    THEN LET x == BigToNat(n)
             y == BigToNat(d)
             g == GCD(x, y)
         IN  [sg |-> sg, n |-> NatToBig(x \div g), d |-> NatToBig(y \div g)]
    ELSE [sg |-> sg, n |-> n, d |-> d]

\* the rational a / b of two integers, b > 0
Q(a, b) == RNorm(IF a < 0 THEN -1 ELSE IF a = 0 THEN 0 ELSE 1,
                 NatToBig(IF a < 0 THEN -a ELSE a), NatToBig(b))

RInt(a) == Q(a, 1)

RNeg(a) == [sg |-> -a.sg, n |-> a.n, d |-> a.d]

RAbs(a) == [sg |-> a.sg * a.sg, n |-> a.n, d |-> a.d]

\* sa * x / d + sb * y / d for two non-zero signs; c is BigCmp(x, y)
RAddSigned(sa, x, sb, y, d, c) ==
    RNorm(IF sa = sb \/ c > 0 THEN sa ELSE sb,
          IF sa = sb THEN BigAdd(x, y)
          ELSE IF c >= 0 THEN BigSub(x, y)
          ELSE BigSub(y, x),
          d)

RAddOver(sa, x, sb, y, d) == RAddSigned(sa, x, sb, y, d, BigCmp(x, y))

RAdd(a, b) ==
    IF a.sg = 0 THEN b
    ELSE IF b.sg = 0 THEN a
    ELSE IF a.d = b.d THEN RAddOver(a.sg, a.n, b.sg, b.n, a.d)
    ELSE RAddOver(a.sg, BigMul(a.n, b.d), b.sg, BigMul(b.n, a.d),
                  BigMul(a.d, b.d))

RSub(a, b) == RAdd(a, RNeg(b))

RMul(a, b) ==
    IF a.sg = 0 THEN a
    ELSE IF b.sg = 0 THEN b
    ELSE RNorm(a.sg * b.sg, BigMul(a.n, b.n), BigMul(a.d, b.d))

\* a / b for b # 0
RDiv(a, b) ==
    IF a.sg = 0 THEN a
    ELSE RNorm(a.sg * b.sg, BigMul(a.n, b.d), BigMul(a.d, b.n))

\* -1, 0, 1 as a < b, a = b, a > b
RCmp(a, b) ==
    IF a.sg < b.sg THEN -1
    ELSE IF a.sg > b.sg THEN 1
    ELSE IF a.sg = 0 THEN 0
    ELSE a.sg * BigCmp(BigMul(a.n, b.d), BigMul(b.n, a.d))

RLt(a, b) == RCmp(a, b) < 0

RLe(a, b) == RCmp(a, b) <= 0

REq(a, b) == RCmp(a, b) = 0

RMax(a, b) == IF RLt(a, b) THEN b ELSE a

RMin(a, b) == IF RLt(b, a) THEN b ELSE a

RZero == RInt(0)

ROne == RInt(1)

\* the integer part of a towards zero, as Python's int()
RTrunc(a) == a.sg * BigToNat(BigDivMod(a.n, a.d).q)

\* the quotient dm.q of a division by d, moved to the nearest integer of the
\* exact quotient, an exact half going to the even one
RoundQuot(dm, d) ==
    LET half == BigCmp(BigAdd(dm.r, dm.r), d)
    IN  IF half > 0 \/ (half = 0 /\ Limb(dm.q, 1) % 2 = 1)
        THEN BigAdd(dm.q, <<1>>)
        ELSE dm.q

\* |a| * 10^nd rounded half-even
RoundMag(a, nd) == RoundQuot(BigDivMod(BigMul(a.n, BigPow(10, nd)), a.d), a.d)

\* Python's round(a, nd) in units of 10^-nd: the nearest multiple of 10^-nd
\* to the exact value, an exact tie going to the even multiple.
RoundUnits(a, nd) == IF a.sg = 0 THEN 0 ELSE a.sg * BigToNat(RoundMag(a, nd))

\* Python's round(a, nd) as a rational
Round(a, nd) ==
    IF a.sg = 0 THEN a ELSE RNorm(a.sg, RoundMag(a, nd), BigPow(10, nd))

-----------------------------------------------------------------------------
(* The nearest IEEE-754 double to a rational (round to nearest, ties to     *)
(* even mantissa), itself a rational m / 2^e with m < 2^53.                 *)

Two52 == Pow2(52)

Two53 == Pow2(53)

\* [n, d, e] with n/d = (n0/d0) * 2^e and 2^40 <= n/d < 2^53 or, for a
\* value that started at or above 2^53, 2^52 <= n/d < 2^65
RECURSIVE FlCoarse(_, _, _)
FlCoarse(n, d, e) ==
    IF BigCmp(BigMulLimb(n, 8192), BigMul(Two53, d)) < 0
    THEN FlCoarse(BigMulLimb(n, 8192), d, e + 13)
    ELSE IF BigCmp(n, BigMul(Two52, BigMulLimb(d, 8192))) >= 0
    THEN FlCoarse(n, BigMulLimb(d, 8192), e - 13)
    ELSE [n |-> n, d |-> d, e |-> e]

\* c scaled by 2^k
FlShift(c, k) ==
    IF k >= 0
    THEN [n |-> BigMulLimb(c.n, 2 ^ k), d |-> c.d, e |-> c.e + k]
    ELSE [n |-> c.n, d |-> BigMulLimb(c.d, 2 ^ (-k)), e |-> c.e + k]

\* the powers of two a coarsely scaled value lies between
Pow2Tab == [j \in 40..66 |-> Pow2(j)]

\* the j with 2^j <= q < 2^(j+1), for 2^40 <= q < 2^66
FlLog2(q) ==
    CHOOSE j \in 40..65 :
        BigCmp(q, Pow2Tab[j]) >= 0 /\ BigCmp(q, Pow2Tab[j + 1]) < 0

\* [n, d, e] with 2^52 <= n/d < 2^53 and n/d = (n0/d0) * 2^e
FlFine(c) == FlShift(c, 52 - FlLog2(BigDivMod(c.n, c.d).q))

FlScale(n0, d0, e0) == FlFine(FlCoarse(n0, d0, e0))

\* sg * m / 2^e
FlValue(sg, m, e) ==
    IF e >= 0 THEN RNorm(sg, m, Pow2(e))
    ELSE RNorm(sg, BigMul(m, Pow2(-e)), <<1>>)

\* the double with the 53-bit mantissa nearest to s.n / s.d
FlPack(sg, s) == FlValue(sg, RoundQuot(BigDivMod(s.n, s.d), s.d), s.e)

Fl(a) == IF a.sg = 0 THEN a ELSE FlPack(a.sg, FlScale(a.n, a.d, 0))

\* float arithmetic: the exact result of the operation on two doubles,
\* rounded to the nearest double
FAdd(a, b) == Fl(RAdd(a, b))

FSub(a, b) == Fl(RSub(a, b))

FMul(a, b) == Fl(RMul(a, b))

FDiv(a, b) == Fl(RDiv(a, b))

-----------------------------------------------------------------------------
(* Python containers.                                                       *)

\* dict.get(key, default)
Get(d, k, default) == IF k \in DOMAIN d THEN d[k] ELSE default

\* t[i] of a tuple, 1 <= i <= len(t), taken with the Sequences operators
Nth(t, i) == Head(SubSeq(t, i, i))

\* the outcome of a call that raises instead of returning
Raise(exc) == [raised |-> exc]

Raised(r) == DOMAIN r = {"raised"}

\* sum(s), added pairwise
RECURSIVE SeqSum(_)
SeqSum(s) ==
    IF s = <<>> THEN RZero
    ELSE IF Len(s) = 1 THEN s[1]
    ELSE LET h == Len(s) \div 2
         IN  RAdd(SeqSum(SubSeq(s, 1, h)), SeqSum(SubSeq(s, h + 1, Len(s))))

RECURSIVE Merge(_, _)
Merge(s, t) ==
    IF s = <<>> THEN t
    ELSE IF t = <<>> THEN s
    ELSE IF RLe(Head(s), Head(t))
    THEN <<Head(s)>> \o Merge(Tail(s), t)
    ELSE <<Head(t)>> \o Merge(s, Tail(t))

\* sorted(s) for a list of numbers
RECURSIVE sorted(_)
sorted(s) ==
    IF Len(s) <= 1
    THEN s
    ELSE LET h == Len(s) \div 2
         IN  Merge(sorted(SubSeq(s, 1, h)), sorted(SubSeq(s, h + 1, Len(s))))

\* sum(weights.get(k, 0) * v for k, v in d.items())
RECURSIVE WeightedSum(_, _, _)
WeightedSum(weights, d, keys) ==
    IF keys = {}
    THEN RZero
    ELSE LET k == CHOOSE x \in keys : TRUE
         IN  RAdd(RMul(Get(weights, k, RZero), d[k]),
                  WeightedSum(weights, d, keys \ {k}))

-----------------------------------------------------------------------------
(* src/bot.py: the Monte Carlo matchup engine.                              *)

\* The number of trials of run_matchup_analysis; 10000 in the source
\* (src/bot.py:17), scaled down here.
NUM_SIMULATIONS == 2

SPORT_WEIGHTS ==
    [NBA |-> [off_rating |-> Q(35, 100), def_rating |-> Q(35, 100),
              pace |-> Q(5, 100), rest |-> Q(5, 100), travel |-> Q(3, 100),
              home |-> Q(4, 100), injury |-> Q(8, 100),
              historical |-> Q(5, 100)],
     NFL |-> [dvoa |-> Q(30, 100), epa |-> Q(25, 100), success |-> Q(15, 100),
              rest |-> Q(8, 100), travel |-> Q(4, 100), home |-> Q(5, 100),
              injury |-> Q(8, 100), historical |-> Q(5, 100)],
     NHL |-> [off_rating |-> Q(32, 100), def_rating |-> Q(32, 100),
              pace |-> Q(6, 100), rest |-> Q(7, 100), travel |-> Q(5, 100),
              home |-> Q(5, 100), injury |-> Q(8, 100),
              historical |-> Q(5, 100)],
     MLB |-> [off_rating |-> Q(28, 100), def_rating |-> Q(28, 100),
              pace |-> Q(4, 100), rest |-> Q(10, 100), travel |-> Q(6, 100),
              home |-> Q(6, 100), injury |-> Q(10, 100),
              historical |-> Q(8, 100)],
     DEFAULT |-> [off_rating |-> Q(33, 100), def_rating |-> Q(33, 100),
                  pace |-> Q(5, 100), rest |-> Q(6, 100), travel |-> Q(4, 100),
                  home |-> Q(5, 100), injury |-> Q(8, 100),
                  historical |-> Q(6, 100)]]

SPORT_STD ==
    [NBA |-> Q(110, 10), NFL |-> Q(95, 10), NHL |-> Q(14, 10),
     MLB |-> Q(28, 10), EPL |-> Q(12, 10), DEFAULT |-> Q(80, 10)]

SPORT_SCALE ==
    [NBA |-> Q(1120, 10), NFL |-> Q(230, 10), NHL |-> Q(30, 10),
     MLB |-> Q(45, 10), EPL |-> Q(14, 10), DEFAULT |-> Q(500, 10)]

\* compute_baseline without its floor
compute_baseline_unfloored(metrics, situational, injury, historical, weights, scale) ==
    RMul(scale,
         RAdd(ROne,
              RMul(RAdd(RAdd(RAdd(WeightedSum(weights, metrics, DOMAIN metrics),
                                  WeightedSum(weights, situational,
                                              DOMAIN situational)),
                             WeightedSum(weights, injury, DOMAIN injury)),
                        RMul(Get(weights, "historical", RZero),
                             Get(historical, "adjusted_point_diff", RZero))),
                   Q(12, 100))))

compute_baseline(metrics, situational, injury, historical, weights, scale) ==
    LET raw == RAdd(RAdd(RAdd(WeightedSum(weights, metrics, DOMAIN metrics),
                              WeightedSum(weights, situational, DOMAIN situational)),
                         WeightedSum(weights, injury, DOMAIN injury)),
                    RMul(Get(weights, "historical", RZero),
                         Get(historical, "adjusted_point_diff", RZero)))
        baseline == RMul(scale, RAdd(ROne, RMul(raw, Q(12, 100))))
    IN  RMax(baseline, RMul(scale, Q(5, 10)))

\* One correlated score pair.  z1 is the first variate (the sum of twelve
\* random.random() minus 6) and w is math.sqrt(1 - corr ** 2) * z2 for the
\* second variate z2; both are the generator's choice.  math.sqrt raises
\* ValueError for a negative argument, after the variates were drawn.
gauss_pair(mu_a, mu_b, sigma, corr, z1, w) ==
    IF RLt(ROne, RMul(corr, corr))
    THEN Raise("ValueError")
    ELSE <<RAdd(mu_a, RMul(sigma, z1)),
           RAdd(mu_b, RMul(sigma, RAdd(RMul(corr, z1), w)))>>

\* the index set of zip(s, t)
Zip(s, t) == DOMAIN s \cap DOMAIN t

\* s[i] of a Python list, i counted from 0
Item(s, i) == IF i < Len(s) THEN s[i + 1] ELSE Raise("IndexError")

\* wins_a counted before the last trial was appended
wins_a_partial(scores_a, scores_b) ==
    Cardinality({i \in Zip(scores_a, scores_b) \ {Len(scores_a)} :
                    RLt(scores_b[i], scores_a[i])})

\* wins_a = sum(1 for a, b in zip(scores_a, scores_b) if a > b)
wins_a_of(scores_a, scores_b) ==
    Cardinality({i \in Zip(scores_a, scores_b) : RLt(scores_b[i], scores_a[i])})

\* win_prob_a = wins_a / n and win_prob_b = 1.0 - win_prob_a, in floats
win_prob_a_of(wins_a, n) == Fl(Q(wins_a, n))

win_prob_b_of(win_prob_a) == Fl(RSub(ROne, win_prob_a))

\* int(f * n) for the float literal f
IntOfScaled(f, n) == RTrunc(Fl(RMul(Fl(f), RInt(n))))

\* the dict monte_carlo returns, from its local variables.  Spread_StdDev (a
\* square root) and Simulation_Distribution (a sample of the scores) are
\* left out.
mc_result(scores_a, scores_b, sorted_a, sorted_b, win_prob_a, n) ==
    [TeamA_Score_Mean   |-> Round(RDiv(SeqSum(scores_a), RInt(n)), 2),
     TeamB_Score_Mean   |-> Round(RDiv(SeqSum(scores_b), RInt(n)), 2),
     TeamA_Score_Median |-> Round(Item(sorted_a, n \div 2), 2),
     TeamB_Score_Median |-> Round(Item(sorted_b, n \div 2), 2),
     TeamA_WinProb      |-> Round(win_prob_a, 4),
     TeamB_WinProb      |-> Round(win_prob_b_of(win_prob_a), 4),
     Projected_Spread   |->
         Round(RDiv(SeqSum([i \in Zip(scores_a, scores_b) |->
                               RSub(scores_a[i], scores_b[i])]), RInt(n)), 2),
     CI_TeamA_Score     |->
         <<Round(Item(sorted_a, IntOfScaled(Q(5, 100), n)), 1),
           Round(Item(sorted_a, IntOfScaled(Q(95, 100), n)), 1)>>,
     CI_TeamB_Score     |->
         <<Round(Item(sorted_b, IntOfScaled(Q(5, 100), n)), 1),
           Round(Item(sorted_b, IntOfScaled(Q(95, 100), n)), 1)>>,
     Simulations        |-> n]

\* the statistics of monte_carlo over the two score lists
mc_stats(scores_a, scores_b, n) ==
    mc_result(scores_a, scores_b, sorted(scores_a), sorted(scores_b),
              win_prob_a_of(wins_a_of(scores_a, scores_b), n), n)

\* the score lists of monte_carlo's loop: side 1 is scores_a, side 2 scores_b;
\* the random source supplies draws[i] = <<z1, w>> to the i-th gauss_pair
mc_scores(baseline_a, baseline_b, sigma, n, draws, side) ==
    [i \in 1..n |-> gauss_pair(baseline_a, baseline_b, sigma, Q(15, 100),
                               draws[i][1], draws[i][2])[side]]

\* monte_carlo: n = 0 divides by zero at wins_a / n, n < 0 leaves the score
\* lists empty and indexes them
monte_carlo(baseline_a, baseline_b, sport, n, draws) ==
    IF n = 0 THEN Raise("ZeroDivisionError")
    ELSE IF n < 0 THEN Raise("IndexError")
    ELSE mc_stats(mc_scores(baseline_a, baseline_b,
                            Get(SPORT_STD, sport, SPORT_STD["DEFAULT"]),
                            n, draws, 1),
                  mc_scores(baseline_a, baseline_b,
                            Get(SPORT_STD, sport, SPORT_STD["DEFAULT"]),
                            n, draws, 2), n)

implied_prob(decimal_odds) ==
    IF decimal_odds.sg > 0 THEN Round(RDiv(ROne, decimal_odds), 4) ELSE Q(1, 2)

\* the Kelly fraction of compute_ev before scaling and rounding
\* kelly_raw of compute_ev for b = market_odds - 1
kelly_raw_of(win_prob, b) ==
    IF b.sg > 0
    THEN FDiv(FSub(FMul(win_prob, b), FSub(ROne, win_prob)), b)
    ELSE RZero

kelly_quarter_of(win_prob, market_odds) ==
    FMul(Q(25, 100), RMax(RZero, kelly_raw_of(win_prob, FSub(market_odds, ROne))))

\* ev of compute_ev
ev_of(win_prob, market_odds, stake) ==
    FSub(FMul(win_prob, FMul(FSub(market_odds, ROne), stake)),
         FMul(FSub(ROne, win_prob), stake))

\* the tuple compute_ev returns
ev_tuple(ev, kelly_quarter, stake) ==
    <<Round(ev, 2), Round(FMul(kelly_quarter, stake), 2),
      Round(FMul(ev, kelly_quarter), 2)>>

\* compute_ev on the doubles its arguments are; every step is a float
\* operation, and the three roundings see the doubles
compute_ev(win_prob, market_odds, stake) ==
    ev_tuple(ev_of(Fl(win_prob), Fl(market_odds), stake),
             kelly_quarter_of(Fl(win_prob), Fl(market_odds)), stake)

\* the branch with side B taken whenever side A is not
pick_side_any(ev_a, ev_b) ==
    IF ev_a.sg > 0 /\ RLe(ev_b, ev_a) THEN "A" ELSE "B"

\* the branch of run_matchup_analysis that picks the bet: "A", "B" or "none"
pick_side(ev_a, ev_b) ==
    IF ev_a.sg > 0 /\ RLe(ev_b, ev_a) THEN "A"
    ELSE IF ev_b.sg > 0 THEN "B"
    ELSE "none"

\* the dict run_matchup_analysis returns, from its local variables; eva and
\* evb are the tuples compute_ev returned for the two sides
matchup_result(matchup, baseline_a, baseline_b, result, odds_a, odds_b, eva, evb) ==
    [EV_Bet       |-> IF pick_side(Nth(eva, 1), Nth(evb, 1)) = "A"
                      THEN matchup.team_a
                      ELSE IF pick_side(Nth(eva, 1), Nth(evb, 1)) = "B"
                      THEN matchup.team_b
                      ELSE "No +EV",
     Kelly_Stake  |-> IF pick_side(Nth(eva, 1), Nth(evb, 1)) = "A"
                      THEN Nth(eva, 2)
                      ELSE IF pick_side(Nth(eva, 1), Nth(evb, 1)) = "B"
                      THEN Nth(evb, 2)
                      ELSE RZero,
     EV_A         |-> Nth(eva, 1),
     EV_B         |-> Nth(evb, 1),
     Edge_A       |-> Round(RSub(result.TeamA_WinProb, implied_prob(odds_a)), 4),
     Edge_B       |-> Round(RSub(result.TeamB_WinProb, implied_prob(odds_b)), 4),
     RiskAdj_EV_A |-> Nth(eva, 3),
     RiskAdj_EV_B |-> Nth(evb, 3),
     Implied_A    |-> implied_prob(odds_a),
     Implied_B    |-> implied_prob(odds_b),
     Baseline_A   |-> Round(baseline_a, 2),
     Baseline_B   |-> Round(baseline_b, 2)] @@ result

\* run_matchup_analysis after the simulation: the two compute_ev calls
matchup_ev(matchup, baseline_a, baseline_b, result, odds_a, odds_b) ==
    IF Raised(result) THEN result
    ELSE matchup_result(matchup, baseline_a, baseline_b, result, odds_a, odds_b,
                        compute_ev(result.TeamA_WinProb, odds_a, RInt(100)),
                        compute_ev(result.TeamB_WinProb, odds_b, RInt(100)))

\* run_matchup_analysis after the two baselines: the simulation
matchup_sim(matchup, baseline_a, baseline_b, draws) ==
    matchup_ev(matchup, baseline_a, baseline_b,
               monte_carlo(baseline_a, baseline_b, matchup.sport,
                           NUM_SIMULATIONS, draws),
               Get(matchup.market_odds, "TeamA", Q(190, 100)),
               Get(matchup.market_odds, "TeamB", Q(190, 100)))

\* the baseline with the first sport's tables as the fallback
matchup_baseline_nba_fallback(matchup, metrics, situational, injury) ==
    compute_baseline(metrics, situational, injury, matchup.historical,
                     Get(SPORT_WEIGHTS, matchup.sport, SPORT_WEIGHTS["NBA"]),
                     Get(SPORT_SCALE, matchup.sport, SPORT_SCALE["NBA"]))

matchup_baseline(matchup, metrics, situational, injury) ==
    compute_baseline(metrics, situational, injury, matchup.historical,
                     Get(SPORT_WEIGHTS, matchup.sport, SPORT_WEIGHTS["DEFAULT"]),
                     Get(SPORT_SCALE, matchup.sport, SPORT_SCALE["DEFAULT"]))

run_matchup_analysis(matchup, draws) ==
    matchup_sim(matchup,
                matchup_baseline(matchup, matchup.metrics_a,
                                 matchup.situational_a, matchup.injury_a),
                matchup_baseline(matchup, matchup.metrics_b,
                                 matchup.situational_b, matchup.injury_b),
                draws)

\* grade with every threshold mapped to the lower grade
grade_strict(edge) ==
    IF RLt(Q(14, 100), edge) THEN "A+"
    ELSE IF RLt(Q(11, 100), edge) THEN "A"
    ELSE IF RLt(Q(8, 100), edge) THEN "B"
    ELSE IF RLt(Q(5, 100), edge) THEN "C"
    ELSE "D"

\* grade(edge), src/bot.py
grade(edge) ==
    IF RLe(Q(14, 100), edge) THEN "A+"
    ELSE IF RLe(Q(11, 100), edge) THEN "A"
    ELSE IF RLe(Q(8, 100), edge) THEN "B"
    ELSE IF RLe(Q(5, 100), edge) THEN "C"
    ELSE "D"

\* kelly(prob, odds), src/bot.py
kelly(prob, odds) ==
    Round(FMul(RMax(kelly_raw_of(Fl(prob), FSub(Fl(odds), ROne)), RZero),
               Q(25, 100)), 4)

-----------------------------------------------------------------------------
(* src/requirements.txt: the dashboard's quant and parlay engines.          *)

DASH_SPORT_STD ==
    [NBA |-> Q(120, 10), NFL |-> Q(100, 10), MLB |-> Q(35, 10),
     NHL |-> Q(25, 10), NCAAB |-> Q(140, 10), EPL |-> Q(12, 10)]

SPORT_BASE ==
    [NBA |-> Q(1150, 10), NFL |-> Q(230, 10), MLB |-> Q(45, 10),
     NHL |-> Q(30, 10), NCAAB |-> Q(720, 10), EPL |-> Q(15, 10)]

\* classify_leg_risk with the boundaries 52 and 58 on the riskier side
classify_leg_risk_inclusive(leg) ==
    LET leg_type == Get(leg, "leg_type", "")
        line     == Get(leg, "line", RZero)
        win_prob == Get(leg, "win_prob", RInt(50))
    IN  IF leg_type = "prop" /\ RLe(RInt(20), line) THEN "HIGH"
        ELSE IF leg_type \in {"spread", "runline"} /\ RLt(Q(65, 10), RAbs(line))
        THEN "HIGH"
        ELSE IF RLe(win_prob, RInt(52)) THEN "HIGH"
        ELSE IF RLe(win_prob, RInt(58)) THEN "MED"
        ELSE "LOW"

classify_leg_risk(leg) ==
    LET leg_type == Get(leg, "leg_type", "")
        line     == Get(leg, "line", RZero)
        win_prob == Get(leg, "win_prob", RInt(50))
    IN  IF leg_type = "prop" /\ RLe(RInt(20), line) THEN "HIGH"
        ELSE IF leg_type \in {"spread", "runline"} /\ RLt(Q(65, 10), RAbs(line))
        THEN "HIGH"
        ELSE IF RLt(win_prob, RInt(52)) THEN "HIGH"
        ELSE IF RLt(win_prob, RInt(58)) THEN "MED"
        ELSE "LOW"

american_to_decimal(odds) ==
    IF odds.sg > 0 THEN RAdd(ROne, RDiv(odds, RInt(100)))
    ELSE IF odds.sg = 0 THEN Raise("ZeroDivisionError")
    ELSE RAdd(ROne, RDiv(RInt(100), RAbs(odds)))

\* decimal_to_american with dec > 2.0 for its test
decimal_to_american_above_even(dec) ==
    IF RLt(RInt(2), dec)
    THEN [plus |-> TRUE, val |-> RoundUnits(RMul(RSub(dec, ROne), RInt(100)), 0)]
    ELSE IF REq(dec, ROne) THEN Raise("ZeroDivisionError")
    ELSE [plus |-> FALSE,
          val |-> RoundUnits(RDiv(RInt(-100), RSub(dec, ROne)), 0)]

\* The returned string is ("+" if plus else "") + str(val).
decimal_to_american(dec) ==
    IF RLe(RInt(2), dec)
    THEN [plus |-> TRUE, val |-> RoundUnits(RMul(RSub(dec, ROne), RInt(100)), 0)]
    ELSE IF REq(dec, ROne) THEN Raise("ZeroDivisionError")
    ELSE [plus |-> FALSE,
          val |-> RoundUnits(RDiv(RInt(-100), RSub(dec, ROne)), 0)]

\* the pair returned as it came in
remove_vig_unscaled(p_a, p_b, total) ==
    IF total.sg = 0 THEN Raise("ZeroDivisionError") ELSE <<p_a, p_b>>

\* remove_vig after total = p_a + p_b; a zero total divides by zero
remove_vig_of(p_a, p_b, total) ==
    IF total.sg = 0
    THEN Raise("ZeroDivisionError")
    ELSE <<FDiv(p_a, total), FDiv(p_b, total)>>

remove_vig(p_a, p_b) == remove_vig_of(Fl(p_a), Fl(p_b), FAdd(Fl(p_a), Fl(p_b)))

\* the Kelly fraction without the clamp at zero
kelly_fraction_unclamped(win_prob, b, fraction) ==
    IF b.sg <= 0
    THEN RZero
    ELSE RMul(RDiv(RSub(RMul(b, win_prob), RSub(ROne, win_prob)), b), fraction)

\* fractional_kelly for b = dec_odds - 1
kelly_fraction_of(win_prob, b, fraction) ==
    IF b.sg <= 0
    THEN RZero
    ELSE RMax(RMul(RDiv(RSub(RMul(b, win_prob), RSub(ROne, win_prob)), b),
                   fraction),
              RZero)

fractional_kelly(win_prob, dec_odds, fraction) ==
    kelly_fraction_of(win_prob, RSub(dec_odds, ROne), fraction)

\* the if/elif/else with side A taken only on a strictly greater EV
ev_side_strict(ev_a, ev_b) ==
    IF ev_a.sg > 0 /\ RLt(ev_b, ev_a) THEN "A"
    ELSE IF ev_b.sg > 0 THEN "B"
    ELSE "none"

\* the if/elif/else of run_quant_engine that picks the bet
ev_side(ev_a, ev_b) ==
    IF ev_a.sg > 0 /\ RLe(ev_b, ev_a) THEN "A"
    ELSE IF ev_b.sg > 0 THEN "B"
    ELSE "none"

\* the leg that run_quant_engine hands to classify_leg_risk
quant_risk_leg(spread, wp) ==
    [leg_type |-> "moneyline", line |-> RAbs(spread),
     win_prob |-> RMul(wp, RInt(100))]

\* the dict run_quant_engine returns, from its local variables.  Left out:
\* id, source, game_time, spread_std (a square root), ci_a and ci_b
\* (np.percentile).
quant_result(m, win_prob_a, win_prob_b, spread, dec_a, dec_b, ev_a, ev_b) ==
    LET side   == ev_side(ev_a, ev_b)
        kelly_ == IF side = "A" THEN fractional_kelly(win_prob_a, dec_a, Q(25, 100))
                  ELSE IF side = "B" THEN fractional_kelly(win_prob_b, dec_b, Q(25, 100))
                  ELSE RZero
        edge   == IF side = "A" THEN ev_a ELSE IF side = "B" THEN ev_b ELSE RZero
        wp     == IF side = "A" THEN win_prob_a
                  ELSE IF side = "B" THEN win_prob_b
                  ELSE RMax(win_prob_a, win_prob_b)
        odds   == IF side = "A" THEN m.market_odds_a
                  ELSE IF side = "B" THEN m.market_odds_b
                  ELSE IF RLe(win_prob_b, win_prob_a) THEN m.market_odds_a
                  ELSE m.market_odds_b
        t      == RTrunc(RDiv(RMul(edge, RInt(100)), RInt(3)))
    IN  [team_a     |-> m.team_a,
         team_b     |-> m.team_b,
         sport      |-> m.sport,
         win_prob_a |-> Round(Fl(RMul(win_prob_a, RInt(100))), 1),
         win_prob_b |-> Round(Fl(RMul(win_prob_b, RInt(100))), 1),
         spread     |-> Round(spread, 1),
         ev_bet     |-> IF side = "A" THEN m.team_a
                        ELSE IF side = "B" THEN m.team_b ELSE "No Edge",
         ev_odds    |-> odds,
         ev_dec     |-> american_to_decimal(odds),
         kelly      |-> Round(RMul(kelly_, RInt(100)), 2),
         edge       |-> Round(RMul(edge, RInt(100)), 2),
         stars      |-> IF t < 1 THEN 1 ELSE IF t > 5 THEN 5 ELSE t,
         win_prob   |-> Round(Fl(RMul(wp, RInt(100))), 1),
         has_edge   |-> side # "none",
         risk       |-> classify_leg_risk(quant_risk_leg(spread, wp)),
         leg_type   |-> "moneyline"]

\* ev_a and ev_b of run_quant_engine
quant_ev(win_prob, dec) ==
    RSub(RMul(win_prob, RSub(dec, ROne)), RSub(ROne, win_prob))

\* run_quant_engine after the odds conversion
quant_evs(m, win_prob_a, win_prob_b, spread, dec_a, dec_b) ==
    IF Raised(dec_a) THEN dec_a
    ELSE IF Raised(dec_b) THEN dec_b
    ELSE quant_result(m, win_prob_a, win_prob_b, spread, dec_a, dec_b,
                      quant_ev(win_prob_a, dec_a), quant_ev(win_prob_b, dec_b))

\* run_quant_engine after the simulation statistics
quant_odds(m, win_prob_a, spread) ==
    quant_evs(m, win_prob_a, win_prob_b_of(win_prob_a), spread,
              american_to_decimal(m.market_odds_a),
              american_to_decimal(m.market_odds_b))

\* run_quant_engine over the simulated score columns sa and sb
quant_stats(m, sa, sb, simulations) ==
    quant_odds(m, win_prob_a_of(wins_a_of(sa, sb), simulations),
               RDiv(SeqSum([i \in Zip(sa, sb) |-> RSub(sa[i], sb[i])]),
                    RInt(simulations)))

\* one column of the scores of np.random.multivariate_normal: draws[i] is the
\* i-th standardised pair, so that a score is mean + std * draw
quant_scores(mean, std, simulations, draws, side) ==
    [i \in 1..simulations |-> RAdd(mean, RMul(std, draws[i][side]))]

\* run_quant_engine for simulations >= 1
run_quant_engine(m, simulations, draws) ==
    quant_stats(m,
                quant_scores(RAdd(Get(SPORT_BASE, m.sport, RInt(100)),
                                  RDiv(m.baseline_diff, RInt(2))),
                             Get(DASH_SPORT_STD, m.sport, RInt(10)),
                             simulations, draws, 1),
                quant_scores(RSub(Get(SPORT_BASE, m.sport, RInt(100)),
                                  RDiv(m.baseline_diff, RInt(2))),
                             Get(DASH_SPORT_STD, m.sport, RInt(10)),
                             simulations, draws, 2),
                simulations)

\* sport_counts[s]: the number of legs whose sport is s
sport_count(legs, s) ==
    Cardinality({i \in 1..Len(legs) : Get(legs[i], "sport", "UNK") = s})

\* the win probability with the haircut applied to every leg
leg_wp_haircut_all(leg, legs) ==
    RMul(RDiv(Get(leg, "win_prob", RInt(50)), RInt(100)), Q(97, 100))

\* one leg's win probability after the correlation penalty
leg_wp(leg, legs) ==
    LET wp == RDiv(Get(leg, "win_prob", RInt(50)), RInt(100))
        same_sport_count == sport_count(legs, Get(leg, "sport", "UNK"))
    IN  IF same_sport_count > 1 THEN RMul(wp, Q(97, 100)) ELSE wp

RECURSIVE combined_prob_of(_, _)
combined_prob_of(legs, i) ==
    IF i = 0 THEN ROne
    ELSE RMul(combined_prob_of(legs, i - 1), leg_wp(legs[i], legs))

RECURSIVE parlay_dec_of(_, _)
parlay_dec_of(legs, i) ==
    IF i = 0 THEN ROne
    ELSE RMul(parlay_dec_of(legs, i - 1), Get(legs[i], "ev_dec", Q(19, 10)))

\* the grade with B given up to two HIGH legs
parlay_grade_lenient(kill_leg_count, ev) ==
    IF kill_leg_count = 0 /\ ev.sg > 0 THEN "A"
    ELSE IF kill_leg_count <= 2 /\ ev.sg > 0 THEN "B"
    ELSE IF kill_leg_count <= 2 THEN "C"
    ELSE "D"

parlay_grade_of(kill_leg_count, ev) ==
    IF kill_leg_count = 0 /\ ev.sg > 0 THEN "A"
    ELSE IF kill_leg_count <= 1 /\ ev.sg > 0 THEN "B"
    ELSE IF kill_leg_count <= 2 THEN "C"
    ELSE "D"

RECURSIVE SelectHigh(_)
SelectHigh(legs) ==
    IF legs = <<>> THEN <<>>
    ELSE (IF Get(Head(legs), "risk", "") = "HIGH" THEN <<Head(legs)>> ELSE <<>>)
             \o SelectHigh(Tail(legs))

\* the warnings with the leg-count warning given from 6 legs on
parlay_warnings_at_ceiling(legs, high_risk_legs, combined_prob) ==
    (IF Len(high_risk_legs) > 0
     THEN <<[kind |-> "high_risk",
             names |-> [i \in 1..Len(high_risk_legs) |->
                           Get(high_risk_legs[i], "ev_bet", "?")]]>>
     ELSE <<>>)
    \o (IF Len(legs) >= 6 THEN <<[kind |-> "too_many_legs"]>> ELSE <<>>)
    \o (IF RLt(combined_prob, Q(5, 100))
        THEN <<[kind |-> "low_probability"]>> ELSE <<>>)

\* Each warning string is modelled by its kind; the HIGH-risk warning also
\* carries the names it joins.
parlay_warnings(legs, high_risk_legs, combined_prob) ==
    (IF Len(high_risk_legs) > 0
     THEN <<[kind |-> "high_risk",
             names |-> [i \in 1..Len(high_risk_legs) |->
                           Get(high_risk_legs[i], "ev_bet", "?")]]>>
     ELSE <<>>)
    \o (IF Len(legs) > 6 THEN <<[kind |-> "too_many_legs"]>> ELSE <<>>)
    \o (IF RLt(combined_prob, Q(5, 100))
        THEN <<[kind |-> "low_probability"]>> ELSE <<>>)

EmptyDict == <<>>

\* calculate_parlay after its empty-list check
parlay_slip(legs) ==
    LET combined_prob == combined_prob_of(legs, Len(legs))
        parlay_dec    == parlay_dec_of(legs, Len(legs))
        b             == RSub(parlay_dec, ROne)
        ev            == RSub(RMul(combined_prob, b), RSub(ROne, combined_prob))
    IN  IF b.sg = 0
        THEN Raise("ZeroDivisionError")
        ELSE LET kelly_raw == RDiv(ev, b)
                 kelly_    == RMax(RMul(kelly_raw, Q(25, 100)), RZero)
                 high_risk_legs == SelectHigh(legs)
                 kill_leg_count == Len(high_risk_legs)
             IN  [legs            |-> legs,
                  num_legs        |-> Len(legs),
                  combined_prob   |-> Round(RMul(combined_prob, RInt(100)), 2),
                  parlay_odds     |-> Round(parlay_dec, 2),
                  parlay_american |-> decimal_to_american(parlay_dec),
                  ev              |-> Round(RMul(ev, RInt(100)), 2),
                  kelly_pct       |-> Round(RMul(kelly_, RInt(100)), 2),
                  grade           |-> parlay_grade_of(kill_leg_count, ev),
                  kill_legs       |-> kill_leg_count,
                  warnings        |-> parlay_warnings(legs, high_risk_legs,
                                                      combined_prob),
                  has_ev          |-> ev.sg > 0]

\* calculate_parlay without its empty-list check
calculate_parlay_unguarded(legs) == parlay_slip(legs)

calculate_parlay(legs) ==
    IF legs = <<>> THEN EmptyDict ELSE parlay_slip(legs)

\* list.sort(key, reverse=True) and sorted(key, reverse=True) on a list of
\* <<key, item>> pairs: descending by key, equal keys keeping their order.
RECURSIVE InsertDesc(_, _)
InsertDesc(x, s) ==
    IF s = <<>> THEN <<x>>
    ELSE IF RLt(Head(s)[1], x[1]) THEN <<x>> \o s
    ELSE <<Head(s)>> \o InsertDesc(x, Tail(s))

RECURSIVE SortDescPairs(_)
SortDescPairs(s) ==
    IF s = <<>> THEN <<>>
    ELSE InsertDesc(s[Len(s)], SortDescPairs(SubSeq(s, 1, Len(s) - 1)))

Items(pairs) == [i \in 1..Len(pairs) |-> pairs[i][2]]

\* s[:k] for k >= 0
Prefix(s, k) == SubSeq(s, 1, IF k < Len(s) THEN k ELSE Len(s))

\* the filter without the has_edge test
is_ev_pick_any_edge(p) == Get(p, "risk", "") # "HIGH"

\* the filter without the risk test
is_ev_pick_any_risk(p) == Get(p, "has_edge", FALSE)

\* p.get('has_edge') and p.get('risk') != 'HIGH'
is_ev_pick(p) == Get(p, "has_edge", FALSE) /\ Get(p, "risk", "") # "HIGH"

\* the sort key of the +EV picks
ev_pick_key(x) ==
    RAdd(Get(x, "edge", RZero), RMul(Get(x, "win_prob", RZero), Q(5, 10)))

win_prob_key(x) == Get(x, "win_prob", RZero)

RECURSIVE FilterEv(_)
FilterEv(s) ==
    IF s = <<>> THEN <<>>
    ELSE (IF is_ev_pick(Head(s)) THEN <<Head(s)>> ELSE <<>>) \o FilterEv(Tail(s))

\* the legs build_optimal_parlay hands to calculate_parlay
optimal_legs(all_picks, max_legs) ==
    LET cands    == FilterEv(all_picks)
        ev_picks == Items(SortDescPairs(
                        [i \in 1..Len(cands) |-> <<ev_pick_key(cands[i]), cands[i]>>]))
        legs     == Prefix(ev_picks, max_legs)
    IN  IF legs = <<>>
        THEN Prefix(Items(SortDescPairs(
                        [i \in 1..Len(all_picks) |->
                            <<win_prob_key(all_picks[i]), all_picks[i]>>])),
                    max_legs)
        ELSE legs

build_optimal_parlay(all_picks, max_legs) ==
    calculate_parlay(optimal_legs(all_picks, max_legs))

-----------------------------------------------------------------------------
(* src/bot.py: the prop picks.  A string that the program cuts or joins is   *)
(* a sequence of its characters.                                             *)

MIN_EDGE == Q(5, 100)

KevinDurant == <<"K", "e", "v", "i", "n", " ", "D", "u", "r", "a", "n", "t">>

GiannisSr == <<"G", "i", "a", "n", "n", "i", "s", " ", "A", "n", "t", "e",
    "t", "o", "k", "o", "u", "n", "m", "p", "o", " ", "S", "r">>

GiannisJr == <<"G", "i", "a", "n", "n", "i", "s", " ", "A", "n", "t", "e",
    "t", "o", "k", "o", "u", "n", "m", "p", "o", " ", "J", "r">>

GerritCole == <<"G", "e", "r", "r", "i", "t", " ", "C", "o", "l", "e">>

Points == <<"P", "o", "i", "n", "t", "s">>

Assists == <<"A", "s", "s", "i", "s", "t", "s">>

Strikeouts == <<"S", "t", "r", "i", "k", "e", "o", "u", "t", "s">>

Blocks == <<"B", "l", "o", "c", "k", "s">>

Locks == <<"l", "o", "c", "k", "s">>

\* str(line) for the lines of the model
str(line) ==
    IF line = Q(265, 10) THEN <<"2", "6", ".", "5">>
    ELSE IF line = Q(75, 10) THEN <<"7", ".", "5">>
    ELSE IF line = Q(55, 10) THEN <<"5", ".", "5">>
    ELSE IF line = Q(15, 10) THEN <<"1", ".", "5">>
    ELSE <<"?">>

\* what propninja_score(line, stat) returns, (composite, prob, edge) rounded,
\* for the lines and stats of the model: the values that math.erf gives
ScoreTable ==
    {[stat |-> Points, line |-> Q(265, 10), proj |-> Q(2829, 100), prob |-> Q(6426, 10000), edge |-> Q(1163, 10000)],
     [stat |-> Assists, line |-> Q(75, 10), proj |-> Q(806, 100), prob |-> Q(6572, 10000), edge |-> Q(1309, 10000)],
     [stat |-> Strikeouts, line |-> Q(55, 10), proj |-> Q(595, 100), prob |-> Q(6715, 10000), edge |-> Q(1452, 10000)],
     [stat |-> Blocks, line |-> Q(15, 10), proj |-> Q(157, 100), prob |-> Q(5977, 10000), edge |-> Q(714, 10000)],
     [stat |-> Locks, line |-> Q(15, 10), proj |-> Q(159, 100), prob |-> Q(6214, 10000), edge |-> Q(951, 10000)]}

score_row(line, stat) == CHOOSE r \in ScoreTable : r.stat = stat /\ r.line = line

propninja_score(line, stat) ==
    <<score_row(line, stat).proj, score_row(line, stat).prob,
      score_row(line, stat).edge>>

backup_pick(player, team, stat, line, proj, prob, edge, kelly_, grade_, source, sport) ==
    [player |-> player, team |-> team, stat |-> stat, line |-> line,
     proj |-> proj, prob |-> prob, edge |-> edge, kelly |-> kelly_,
     grade |-> grade_, pick |-> "OVER", source |-> source, sport |-> sport]

BACKUP ==
    <<backup_pick(<<"K", "e", "v", "i", "n", " ", "D", "u", "r", "a", "n",
                  "t">>, "HOU", Points, Q(265, 10), Q(285, 10), Q(841, 1000),
                  Q(314, 1000), Q(18, 100), "A+", "PrizePicks", "NBA"),
      backup_pick(<<"L", "a", "M", "e", "l", "o", " ", "B", "a", "l", "l">>,
                  "CHA", Assists, Q(75, 10), Q(81, 10), Q(821, 1000), Q(295,
                  1000), Q(16, 100), "A", "PrizePicks", "NBA"),
      backup_pick(<<"N", "a", "t", "h", "a", "n", " ", "M", "a", "c", "K",
                  "i", "n", "n", "o", "n">>, "COL", Points, Q(5, 10), Q(6,
                  10), Q(814, 1000), Q(288, 1000), Q(15, 100), "A",
                  "PrizePicks", "NHL"),
      backup_pick(<<"B", "u", "k", "a", "y", "o", " ", "S", "a", "k", "a">>,
                  "ARS", <<"S", "h", "o", "t", "s", " ", "o", "n", " ", "T",
                  "a", "r", "g", "e", "t">>, Q(15, 10), Q(17, 10), Q(798,
                  1000), Q(271, 1000), Q(14, 100), "A", "PrizePicks", "EPL"),
      backup_pick(<<"S", "h", "o", "h", "e", "i", " ", "O", "h", "t", "a",
                  "n", "i">>, "LAD", <<"T", "o", "t", "a", "l", " ", "B", "a",
                  "s", "e", "s">>, Q(15, 10), Q(16, 10), Q(781, 1000), Q(254,
                  1000), Q(13, 100), "A", "PrizePicks", "MLB"),
      backup_pick(<<"C", "o", "n", "n", "o", "r", " ", "M", "c", "D", "a",
                  "v", "i", "d">>, "EDM", Points, Q(5, 10), Q(6, 10), Q(814,
                  1000), Q(288, 1000), Q(15, 100), "A", "Kalshi", "NHL"),
      backup_pick(<<"T", "r", "a", "e", " ", "Y", "o", "u", "n", "g">>, "ATL",
                  Assists, Q(105, 10), Q(113, 10), Q(761, 1000), Q(235, 1000),
                  Q(12, 100), "A", "Kalshi", "NBA")>>

\* k = kelly(prob) for each outcome of propninja_score
kelly_of_score == [r \in ScoreTable |-> kelly(r.prob, Q(190, 100))]

\* the dict that fetch_prizepicks and fetch_kalshi append for a projection
\* whose score is the row r
feed_pick(player, team, stat, line, r, source, sport) ==
    [player |-> player, team |-> team, stat |-> stat, line |-> line,
     proj |-> r.proj, prob |-> r.prob, edge |-> r.edge,
     kelly |-> kelly_of_score[r], grade |-> grade(r.edge), pick |-> "OVER",
     source |-> source, sport |-> sport]

\* picks.sort(key=lambda x: x["edge"], reverse=True)
sort_by_edge(picks) ==
    Items(SortDescPairs([i \in 1..Len(picks) |-> <<picks[i].edge, picks[i]>>]))

\* the picks of fetch_prizepicks for the projections its request returned,
\* each [name, team, stat_type, line_score, league]: those with edg >=
\* MIN_EDGE, by descending edge
RECURSIVE prizepicks_picks(_)
prizepicks_picks(projections) ==
    IF projections = <<>> THEN <<>>
    ELSE (IF RLe(MIN_EDGE, score_row(Head(projections).line_score,
                                     Head(projections).stat_type).edge)
          THEN <<feed_pick(Head(projections).name, Head(projections).team,
                           Head(projections).stat_type,
                           Head(projections).line_score,
                           score_row(Head(projections).line_score,
                                     Head(projections).stat_type),
                           "PrizePicks", Head(projections).league)>>
          ELSE <<>>) \o prizepicks_picks(Tail(projections))

fetch_prizepicks(projections) == sort_by_edge(prizepicks_picks(projections))

\* the picks of fetch_kalshi for the markets its requests returned, each
\* [title, stat, line, sport_label]: those with edg >= MIN_EDGE, the twelve
\* of the highest edge
RECURSIVE kalshi_picks(_)
kalshi_picks(markets) ==
    IF markets = <<>> THEN <<>>
    ELSE (IF RLe(MIN_EDGE, score_row(Head(markets).line, Head(markets).stat).edge)
          THEN <<feed_pick(Prefix(Head(markets).title, 50), "",
                           Prefix(Head(markets).stat, 35), Head(markets).line,
                           score_row(Head(markets).line, Head(markets).stat),
                           "Kalshi", Head(markets).sport_label)>>
          ELSE <<>>) \o kalshi_picks(Tail(markets))

fetch_kalshi(markets) == Prefix(sort_by_edge(kalshi_picks(markets)), 12)

\* key = p["player"][:20] + p["stat"] + str(p["line"])
pick_key(p) == Prefix(p.player, 20) \o p.stat \o str(p.line)

\* get_all_picks appending every pick, seen or not
add_any(unique, p) == Append(unique, p)

\* unique after p: p appended unless its key was seen
add_unique(unique, p) ==
    IF \E j \in 1..Len(unique) : pick_key(unique[j]) = pick_key(p)
    THEN unique
    ELSE Append(unique, p)

\* unique after the first i picks of combined
RECURSIVE unique_of(_, _)
unique_of(combined, i) ==
    IF i = 0 THEN <<>>
    ELSE add_unique(unique_of(combined, i - 1), combined[i])

\* get_all_picks, pp and kl being what the two fetches returned
get_all_picks(pp, kl) ==
    IF pp \o kl = <<>> THEN BACKUP
    ELSE Prefix(unique_of(sort_by_edge(pp \o kl), Len(pp \o kl)), 25)

\* s.upper() for the sport tags of the model
upper(s) ==
    IF s = "nba" THEN "NBA" ELSE IF s = "mlb" THEN "MLB"
    ELSE IF s = "nhl" THEN "NHL" ELSE s

\* [p for p in picks if p["sport"].upper() == sport.upper()]
of_sport(picks, sport) ==
    SelectSeq(picks, LAMBDA p : upper(p.sport) = upper(sport))

get_by_sport(sport, pp, kl) ==
    Prefix(IF of_sport(get_all_picks(pp, kl), sport) = <<>>
           THEN of_sport(BACKUP, sport)
           ELSE of_sport(get_all_picks(pp, kl), sport), 10)

get_by_source(source, pp, kl) ==
    Prefix(SelectSeq(get_all_picks(pp, kl), LAMBDA p : p.source = source), 10)

\* n >= 0
get_top_picks(n, pp, kl) ==
    Prefix(SelectSeq(get_all_picks(pp, kl),
                     LAMBDA p : p.grade \in {"A+", "A"}), n)

-----------------------------------------------------------------------------
(* src/requirements.txt: the Flask routes.  A route is given the session it *)
(* finds and returns the response it sends with the session it leaves.      *)

ACCESS_PASSWORD == "ninja2025"

\* session.get('auth')
authorized(s) == Get(s, "auth", FALSE)

redirect(location) == [status |-> 302, location |-> location]

unauthorized == [status |-> 401, body |-> [error |-> "unauthorized"]]

login(method, form, s) ==
    IF method = "POST"
    THEN IF Get(form, "password", "") = ACCESS_PASSWORD
         THEN [response |-> redirect("/"), session |-> [auth |-> TRUE] @@ s]
         ELSE [response |-> [status |-> 200, body |-> "LOGIN_HTML",
                             error |-> TRUE],
               session |-> s]
    ELSE [response |-> [status |-> 200, body |-> "LOGIN_HTML", error |-> FALSE],
          session |-> s]

logout(s) == [response |-> redirect("/login"), session |-> <<>>]

index(s) ==
    [response |-> IF ~authorized(s) THEN redirect("/login")
                  ELSE [status |-> 200, body |-> "DASHBOARD_HTML"],
     session |-> s]

\* api_picks answering whoever asks
api_picks_open(s) ==
    [response |-> [status |-> 200, body |-> "get_all_data"], session |-> s]

\* the body is what get_all_data() collected from the feeds
api_picks(s) ==
    [response |-> IF ~authorized(s) THEN unauthorized
                  ELSE [status |-> 200, body |-> "get_all_data"],
     session |-> s]

\* jsonify of the parlay; an exception in the view is answered with 500
jsonify_parlay(parlay) ==
    IF Raised(parlay) THEN [status |-> 500, body |-> parlay]
    ELSE [status |-> 200, body |-> parlay]

api_parlay(json, s) ==
    [response |-> IF ~authorized(s) THEN unauthorized
                  ELSE jsonify_parlay(calculate_parlay(Get(json, "legs", <<>>))),
     session |-> s]

health(s) == [response |-> [status |-> 200, body |-> [status |-> "ok"]],
              session |-> s]

-----------------------------------------------------------------------------
(* src/requirements.txt: the script of the dashboard page.  Its numbers are *)
(* JavaScript's: doubles and NaN, which an absent field turns into.         *)

NaN == [nan |-> TRUE]

isNaN(x) == DOMAIN x = {"nan"}

\* Math.round(a): the nearest integer, a half going up
MathRound(a) ==
    IF a.sg = 0 THEN 0
    ELSE IF a.sg > 0
    THEN (IF BigCmp(BigAdd(BigDivMod(a.n, a.d).r, BigDivMod(a.n, a.d).r),
                    a.d) >= 0
          THEN BigToNat(BigDivMod(a.n, a.d).q) + 1
          ELSE BigToNat(BigDivMod(a.n, a.d).q))
    ELSE (IF BigCmp(BigAdd(BigDivMod(a.n, a.d).r, BigDivMod(a.n, a.d).r),
                    a.d) > 0
          THEN -(BigToNat(BigDivMod(a.n, a.d).q) + 1)
          ELSE -BigToNat(BigDivMod(a.n, a.d).q))

\* the quotient dm.q of a division by d, moved to the nearest integer of the
\* exact quotient, an exact half going to the larger one
HalfUpQuot(dm, d) ==
    IF BigCmp(BigAdd(dm.r, dm.r), d) >= 0 THEN BigAdd(dm.q, <<1>>) ELSE dm.q

\* the number that a.toFixed(nd) writes: the sign, then the magnitude to nd
\* decimals, a half going away from zero; "NaN" for NaN
toFixed(a, nd) ==
    IF isNaN(a) THEN NaN
    ELSE IF a.sg = 0 THEN a
    ELSE RNorm(a.sg,
               HalfUpQuot(BigDivMod(BigMul(a.n, BigPow(10, nd)), a.d), a.d),
               BigPow(10, nd))

\* l.sport||'X'
sport_or_x(l) == IF Get(l, "sport", "") = "" THEN "X" ELSE l.sport

\* sportCount[s] after the first forEach
sportCount(legs, s) ==
    Cardinality({i \in 1..Len(legs) : sport_or_x(legs[i]) = s})

\* wp of one leg in the second forEach; undefined / 100.0 is NaN
slip_wp(l, legs) ==
    IF "win_prob" \notin DOMAIN l THEN NaN
    ELSE IF sportCount(legs, sport_or_x(l)) > 1
    THEN RMul(RDiv(l.win_prob, RInt(100)), Q(97, 100))
    ELSE RDiv(l.win_prob, RInt(100))

\* combined *= wp, NaN once a factor is NaN
slip_times(combined, wp) ==
    IF isNaN(combined) \/ isNaN(wp) THEN NaN ELSE RMul(combined, wp)

RECURSIVE combined_of(_, _)
combined_of(legs, i) ==
    IF i = 0 THEN ROne
    ELSE slip_times(combined_of(legs, i - 1), slip_wp(legs[i], legs))

\* l.ev_dec||1.9
ev_dec_or_default(l) ==
    IF Get(l, "ev_dec", RZero).sg = 0 THEN Q(19, 10) ELSE l.ev_dec

RECURSIVE parlayDec_of(_, _)
parlayDec_of(legs, i) ==
    IF i = 0 THEN ROne
    ELSE RMul(parlayDec_of(legs, i - 1), ev_dec_or_default(legs[i]))

slip_ev(combined, parlayDec) ==
    IF isNaN(combined) THEN NaN
    ELSE RSub(RMul(combined, RSub(parlayDec, ROne)), RSub(ROne, combined))

\* kellyRaw, 0 unless parlayDec > 1, and kelly = Math.max(kellyRaw*0.25, 0.0)
slip_kelly(ev, parlayDec) ==
    IF ~RLt(ROne, parlayDec) THEN RZero
    ELSE IF isNaN(ev) THEN NaN
    ELSE RMax(RMul(RDiv(ev, RSub(parlayDec, ROne)), Q(25, 100)), RZero)

\* ev > 0, false for NaN
slip_ev_positive(ev) == ~isNaN(ev) /\ ev.sg > 0

slip_grade(highRisk, ev) ==
    IF Len(highRisk) = 0 /\ slip_ev_positive(ev) THEN "A"
    ELSE IF Len(highRisk) <= 1 /\ slip_ev_positive(ev) THEN "B"
    ELSE IF Len(highRisk) <= 2 THEN "C"
    ELSE "D"

\* american: '+' and the rounded profit on 100 from 2.0 up, else the
\* rounded stake for 100; -100 / 0 is -Infinity
slip_american(parlayDec) ==
    IF RLe(RInt(2), parlayDec)
    THEN [plus |-> TRUE,
          val |-> MathRound(RMul(RSub(parlayDec, ROne), RInt(100)))]
    ELSE IF REq(parlayDec, ROne) THEN [plus |-> FALSE, val |-> "-Infinity"]
    ELSE [plus |-> FALSE,
          val |-> MathRound(RDiv(RInt(-100), RSub(parlayDec, ROne)))]

\* the legs whose risk is 'HIGH'
RECURSIVE highRisk_of(_)
highRisk_of(legs) ==
    IF legs = <<>> THEN <<>>
    ELSE (IF Get(Head(legs), "risk", "") = "HIGH" THEN <<Head(legs)>> ELSE <<>>)
             \o highRisk_of(Tail(legs))

\* each warning by its kind; the first carries the names it joins
slip_warnings(legs, highRisk, combined) ==
    (IF Len(highRisk) > 0
     THEN <<[kind |-> "high_risk",
             names |-> [i \in 1..Len(highRisk) |->
                           Get(highRisk[i], "ev_bet", "undefined")]]>>
     ELSE <<>>)
    \o (IF Len(legs) > 6 THEN <<[kind |-> "too_many_legs"]>> ELSE <<>>)
    \o (IF ~isNaN(combined) /\ RLt(combined, Q(5, 100))
        THEN <<[kind |-> "low_probability"]>> ELSE <<>>)

slip_percent(x) == IF isNaN(x) THEN NaN ELSE toFixed(RMul(x, RInt(100)), 2)

\* the rows written to parlay-result
slip_rows(legs, combined, parlayDec, ev, highRisk) ==
    [legs        |-> Len(legs),
     probability |-> slip_percent(combined),
     american    |-> slip_american(parlayDec),
     ev          |-> slip_percent(ev),
     kelly       |-> slip_percent(slip_kelly(ev, parlayDec)),
     kill_legs   |-> Len(highRisk),
     grade       |-> slip_grade(highRisk, ev),
     warnings    |-> slip_warnings(legs, highRisk, combined)]

slip_result(legs, combined, parlayDec) ==
    slip_rows(legs, combined, parlayDec, slip_ev(combined, parlayDec),
              highRisk_of(legs))

\* parlay-result.innerHTML = '': no row
NoRows == [rows |-> <<>>]

\* parlay-result after recalcSlip over the legs of the slip: '' without legs
recalcSlip(legs) ==
    IF legs = <<>> THEN NoRows
    ELSE slip_result(legs, combined_of(legs, Len(legs)),
                     parlayDec_of(legs, Len(legs)))

\* a JS object keyed by id, with the entry of rec.id set to rec
put(map, rec) ==
    [i \in DOMAIN map \cup {rec.id} |-> IF i = rec.id THEN rec ELSE map[i]]

\* map after recs.forEach(function(p){ map[p.id] = p })
RECURSIVE put_all(_, _)
put_all(map, recs) ==
    IF recs = <<>> THEN map ELSE put_all(put(map, Head(recs)), Tail(recs))

\* parlayLegs is held as Object.values(parlayLegs): the legs in the order
\* their ids were inserted (no id of the server is an integer index).
\* parlayLegs[id] is set
has_leg(parlayLegs, id) == \E i \in 1..Len(parlayLegs) : parlayLegs[i].id = id

\* delete parlayLegs[id]
delete_leg(parlayLegs, id) == SelectSeq(parlayLegs, LAMBDA l : l.id # id)

\* if(parlayLegs[p.id]) delete parlayLegs[p.id]; else parlayLegs[p.id] = p
toggled(parlayLegs, p) ==
    IF has_leg(parlayLegs, p.id) THEN delete_leg(parlayLegs, p.id)
    ELSE Append(parlayLegs, p)

\* the page as the script finds it: no data, an empty slip, the count 0 and
\* an empty parlay-result of the HTML, no lookup maps, no Kalshi card
NewPage ==
    [allData |-> <<>>, parlayLegs |-> <<>>, s_parlay |-> 0,
     parlay_result |-> NoRows, _propMap |-> <<>>, _kalshiMap |-> <<>>,
     kalshi_grid |-> {}]

\* the handler leaving parlayLegs as legs and returning
slip_not_shown(pg, legs) == [pg EXCEPT !.parlayLegs = legs]

\* the handler leaving parlayLegs as legs, then writing s-parlay and calling
\* recalcSlip
slip_shown(pg, legs) ==
    [pg EXCEPT !.parlayLegs = legs, !.s_parlay = Len(legs),
               !.parlay_result = recalcSlip(legs)]

toggleLeg(pg, p) == slip_shown(pg, toggled(pg.parlayLegs, p))

clearSlip(pg) ==
    [pg EXCEPT !.parlayLegs = <<>>, !.s_parlay = 0,
               !.parlay_result = recalcSlip(<<>>)]

removeLeg(pg, id) == slip_shown(pg, delete_leg(pg.parlayLegs, id))

\* if(!p) return
toggleProp(pg, id) ==
    IF id \notin DOMAIN pg._propMap THEN pg
    ELSE slip_shown(pg, toggled(pg.parlayLegs, pg._propMap[id]))

\* renderKalshi(Object.values(window._kalshiMap)) draws a card for every
\* market of the map
toggleKalshi(pg, id) ==
    IF id \notin DOMAIN pg._kalshiMap THEN pg
    ELSE [slip_shown(pg, toggled(pg.parlayLegs, pg._kalshiMap[id]))
            EXCEPT !.kalshi_grid = DOMAIN pg._kalshiMap]

\* renderAll(d): renderPrizePicks and renderKalshi store the props and the
\* markets they draw, and recalcSlip renders the slip
renderAll(pg, d) ==
    [pg EXCEPT !._propMap = put_all(@, d.prizepicks_props),
               !._kalshiMap = put_all(@, d.kalshi_markets),
               !.kalshi_grid = {d.kalshi_markets[i].id :
                                   i \in 1..Len(d.kalshi_markets)},
               !.parlay_result = recalcSlip(pg.parlayLegs)]

\* loadData, d being the body of the response to /api/picks
loadData(pg, d) == renderAll([pg EXCEPT !.allData = <<d>>], d)

\* the picks whose cards renderParlayPicks drew: those of allData
pick_cards(pg) ==
    IF pg.allData = <<>> THEN {}
    ELSE {Head(pg.allData).sportsbook_picks[i] :
             i \in 1..Len(Head(pg.allData).sportsbook_picks)}

\* the ids of the '+ Add' buttons renderPrizePicks drew
prop_buttons(pg) ==
    IF pg.allData = <<>> THEN {}
    ELSE {Head(pg.allData).prizepicks_props[i].id :
             i \in 1..Len(Head(pg.allData).prizepicks_props)}

-----------------------------------------------------------------------------
(* The state machine.  call is the pending call: the function and its       *)
(* arguments.  ret is the list of the values returned: empty until the call *)
(* returns.  rng is the state of the process-wide generator that gauss_pair *)
(* (the random module) and run_quant_engine (np.random) draw from, held as  *)
(* the sequence seq of the standardised pairs it yields from its seeding on *)
(* and the number pos of them already drawn.                                *)

\* bounds of the inputs
MaxTrials == 3

LongRunQE == 80

\* the trials of the run_quant_engine call priced so that the two EVs can tie
TieRunQE == 4

MaxLegs == 3

MaxK == 2

StreamLen == 5

\* the longest slip posted to calculate_parlay
LongSlip == 7

RECURSIVE SeqsUpTo(_, _)
SeqsUpTo(S, k) ==
    IF k = 0 THEN {<<>>}
    ELSE LET shorter == SeqsUpTo(S, k - 1)
         IN  shorter \cup {Append(s, x) : s \in {t \in shorter : Len(t) = k - 1}, x \in S}

SeqsOfLen(S, k) == {s \in SeqsUpTo(S, k) : Len(s) = k}

\* what the generator may hand to one trial as <<z1, w>>: a tie between equal
\* means, a win of side A, a win of side B
Draws == {<<RInt(0), RInt(0)>>, <<RInt(1), RInt(0)>>, <<RInt(0), RInt(1)>>}

\* a long run: k trials won by side A, then n - k won by side B
RunOf(k, n) == [i \in 1..n |-> IF i <= k THEN <<RInt(1), RInt(0)>>
                                ELSE <<RInt(0), RInt(1)>>]

\* the generator states that yield n pairs: every sequence for a short
\* simulation, the runs for a long one
Streams(n) ==
    IF n <= MaxTrials THEN SeqsOfLen(Draws, n) ELSE {RunOf(k, n) : k \in 0..n}

\* the generator after random.seed(seed): a fixed sequence for each seed
SeedStream(seed) ==
    [i \in 1..StreamLen |->
        IF (i + seed) % 3 = 0 THEN <<RInt(0), RInt(0)>>
        ELSE IF (i + seed) % 3 = 1 THEN <<RInt(1), RInt(0)>>
        ELSE <<RInt(0), RInt(1)>>]

Sports == {"NBA", "CURLING"}

MonteCarloCalls ==
    {[fn |-> "monte_carlo", baseline_a |-> ba, baseline_b |-> RInt(112),
      sport |-> sp, n |-> n] :
        ba \in {RInt(112), RInt(115)}, sp \in Sports, n \in -1..MaxTrials}

GaussPairCalls ==
    {[fn |-> "gauss_pair", mu_a |-> RInt(112), mu_b |-> RInt(110),
      sigma |-> sg, corr |-> c] :
        sg \in {RInt(-1), RZero, RInt(11)},
        c \in {Q(15, 100), ROne, RInt(2), Q(-3, 2)}}

\* the matchups of fetch_espn_matchups, and the same with both sides alike
MatchupOf(sp, alike, odds) ==
    [team_a |-> "Home", team_b |-> "Away", sport |-> sp,
     metrics_a |-> IF alike
                   THEN [off_rating |-> RZero, def_rating |-> RZero]
                   ELSE [off_rating |-> Q(3, 100), def_rating |-> Q(-2, 100)],
     metrics_b |-> [off_rating |-> RZero, def_rating |-> RZero],
     situational_a |-> IF alike THEN [home |-> RZero, rest |-> RZero]
                       ELSE [home |-> Q(4, 100), rest |-> Q(2, 100)],
     situational_b |-> [home |-> RZero, rest |-> RZero],
     injury_a |-> [injury |-> RZero],
     injury_b |-> [injury |-> RZero],
     historical |-> [adjusted_point_diff |-> RInt(2)],
     market_odds |-> odds]

MarketOdds ==
    {<<>>,
     [TeamA |-> Q(19, 10), TeamB |-> Q(19, 10)],
     [TeamA |-> Q(22, 10), TeamB |-> Q(22, 10)],
     [TeamA |-> Q(15, 10), TeamB |-> Q(30, 10)],
     [TeamA |-> Q(25, 10), TeamB |-> Q(16, 10)],
     [TeamA |-> Q(22, 10), TeamB |-> Q(25, 10)]}

MatchupCalls ==
    {[fn |-> "run_matchup_analysis", matchup |-> MatchupOf(sp, alike, odds)] :
        sp \in Sports, alike \in BOOLEAN, odds \in MarketOdds}

AmericanOdds ==
    {<<RInt(-130), RInt(110)>>, <<RInt(120), RInt(120)>>,
     <<RInt(-110), RInt(-110)>>, <<RInt(150), RInt(-200)>>}

MatchupInputOf(sp, diff, odds) ==
    [team_a |-> "Home", team_b |-> "Away", sport |-> sp,
     baseline_diff |-> diff, market_odds_a |-> odds[1],
     market_odds_b |-> odds[2]]

QuantCalls ==
    {[fn |-> "run_quant_engine", m |-> MatchupInputOf(sp, diff, odds),
      simulations |-> n] :
        sp \in Sports, diff \in {RZero, RInt(20), Q(-35, 10)},
        odds \in AmericanOdds, n \in 1..2}
    \cup
    {[fn |-> "run_quant_engine",
      m |-> MatchupInputOf("NBA", RZero, <<RInt(-130), RInt(110)>>),
      simulations |-> LongRunQE],
     [fn |-> "run_quant_engine",
      m |-> MatchupInputOf("NBA", RZero, <<RInt(500), RInt(100)>>),
      simulations |-> TieRunQE]}

Probs == {RZero, Q(1, 4), Q(1, 2), Q(55, 100), Q(6, 10), ROne}

DecimalOdds == {Q(1, 2), ROne, Q(3, 2), Q(19, 10), RInt(2), RInt(3)}

Fractions == {RZero, Q(1, 4), Q(1, 2), ROne}

KellyCalls ==
    {[fn |-> "fractional_kelly", win_prob |-> p, dec_odds |-> o, fraction |-> f] :
        p \in Probs, o \in DecimalOdds, f \in Fractions}
    \cup
    {[fn |-> "kelly", prob |-> p, odds |-> o] : p \in Probs, o \in DecimalOdds}
    \cup
    {[fn |-> "compute_ev", win_prob |-> p, market_odds |-> o, stake |-> st] :
        p \in Probs, o \in DecimalOdds, st \in {ROne, RInt(100)}}

\* legs as run_quant_engine makes them, as the dashboard posts them (any
\* field may be missing), one at even decimal odds of 1.0 and one below.
\* The odds are such that no reported value of a slip of these legs falls on
\* a rounding boundary, where the double and the exact value round apart.
LegPool ==
    {[ev_bet |-> "Lakers", sport |-> "NBA", win_prob |-> RInt(65),
      ev_dec |-> Q(183, 100), risk |-> "LOW", has_edge |-> TRUE,
      edge |-> Q(235, 10), grade |-> "A+"],
     [ev_bet |-> "Celtics", sport |-> "NBA", win_prob |-> RInt(60),
      ev_dec |-> Q(23, 10), risk |-> "LOW", has_edge |-> TRUE,
      edge |-> RInt(26), grade |-> "D"],
     [ev_bet |-> "Chiefs", sport |-> "NFL", win_prob |-> RInt(70),
      ev_dec |-> Q(157, 100), risk |-> "LOW", has_edge |-> TRUE,
      edge |-> RInt(5)],
     [ev_bet |-> "Jets +7", sport |-> "NFL", win_prob |-> RInt(70),
      ev_dec |-> Q(182, 100), risk |-> "HIGH", has_edge |-> TRUE,
      edge |-> RInt(33), leg_type |-> "spread"],
     [ev_bet |-> "No Edge", sport |-> "NBA", win_prob |-> RInt(51),
      ev_dec |-> Q(187, 100), risk |-> "HIGH", has_edge |-> FALSE,
      edge |-> RZero],
     [ev_bet |-> "Prop"],
     [ev_bet |-> "Even", sport |-> "MLB", win_prob |-> RInt(100),
      ev_dec |-> ROne, risk |-> "LOW", has_edge |-> FALSE, edge |-> RZero],
     [ev_bet |-> "Short", sport |-> "NHL", win_prob |-> RInt(60),
      ev_dec |-> Q(9, 10), risk |-> "LOW", has_edge |-> FALSE, edge |-> RZero]}

\* slips of LongSlip - 1 and LongSlip legs, one pick repeated
LongSlips ==
    {[i \in 1..n |-> leg] :
        n \in (LongSlip - 1)..LongSlip,
        leg \in {l \in LegPool : l.ev_bet \in {"Chiefs", "Lakers", "No Edge"}}}

ParlayCalls ==
    {[fn |-> "calculate_parlay", legs |-> l] :
        l \in SeqsUpTo(LegPool, MaxLegs) \cup LongSlips}
    \cup
    {[fn |-> "build_optimal_parlay", all_picks |-> l, max_legs |-> k] :
        l \in SeqsUpTo(LegPool, MaxLegs), k \in 0..MaxK}

\* legs for classify_leg_risk: a dict the caller filled as it liked
RiskLines == {RZero, Q(65, 10), RInt(7), RInt(-7), Q(195, 10), RInt(20)}

RiskWinProbs ==
    {RInt(40), Q(5199, 100), RInt(52), RInt(55), Q(5799, 100), RInt(58), RInt(70)}

RiskCalls ==
    {[fn |-> "classify_leg_risk",
      leg |-> [leg_type |-> t, line |-> l, win_prob |-> wp]] :
        t \in {"moneyline", "spread", "runline", "prop", "total"},
        l \in RiskLines, wp \in RiskWinProbs}
    \cup
    {[fn |-> "classify_leg_risk", leg |-> leg] :
        leg \in {<<>>, [leg_type |-> "prop"], [win_prob |-> RInt(58)],
                 [leg_type |-> "spread", line |-> RInt(-10)]}}

\* edges in steps of a tenth of a percent, from -1% to 16%
GradeCalls == {[fn |-> "grade", edge |-> Q(k, 1000)] : k \in -10..160}

BaselineCalls ==
    {[fn |-> "compute_baseline",
      metrics |-> [off_rating |-> x, def_rating |-> y],
      situational |-> [home |-> Q(4, 100)],
      injury |-> [injury |-> RZero],
      historical |-> h,
      weights |-> Get(SPORT_WEIGHTS, sp, SPORT_WEIGHTS["DEFAULT"]),
      scale |-> Get(SPORT_SCALE, sp, SPORT_SCALE["DEFAULT"])] :
        x \in {RInt(-30), RInt(-12), RZero, Q(3, 100), RInt(5)},
        y \in {RInt(-12), RZero, RInt(2)},
        h \in {<<>>, [adjusted_point_diff |-> RInt(2)],
               [adjusted_point_diff |-> RInt(-40)]},
        sp \in {"NBA", "MLB", "CURLING"}}

OddsCalls ==
    {[fn |-> "american_to_decimal", odds |-> RInt(o)] :
        o \in {-400, -200, -130, -110, -100, -1, 0, 1, 100, 110, 150, 300}}
    \cup
    {[fn |-> "decimal_to_american", dec |-> Q(d, 100)] :
        d \in {0, 50, 90, 99, 100, 101, 125, 150, 191, 199, 200, 250, 400}}

\* the largest American odds of the round trips
MaxOdds == 250

\* american_to_decimal on every integer price up to MaxOdds either way
RoundTripCalls ==
    {[fn |-> "american_to_decimal", odds |-> RInt(o)] : o \in -MaxOdds..MaxOdds}

\* implied probabilities in hundredths, with a negative one and zero
VigProbs == {Q(k, 100) : k \in {-50, 0, 1, 4, 9, 40, 50, 55, 60}}

VigCalls ==
    {[fn |-> "remove_vig", p_a |-> a, p_b |-> b] : a \in VigProbs, b \in VigProbs}

\* the most legs of a slip posted to /api/parlay
MaxPosted == 2

\* the forms posted to /login: no password field, the password, another one
LoginForms == {<<>>, [password |-> ACCESS_PASSWORD], [password |-> "letmein"]}

\* the JSON bodies posted to /api/parlay: without legs, and with a slip
ParlayBodies == {<<>>} \cup {[legs |-> l] : l \in SeqsUpTo(LegPool, MaxPosted)}

\* the most projections of a feed, and the length of the long feed
MaxFeed == 2

LongFeed == 26

\* the projections that PrizePicks lists: two players whose names share
\* their first 20 characters, and two whose names and stats join to one key
Projections ==
    {[name |-> KevinDurant, team |-> "HOU", stat_type |-> Points,
      line_score |-> Q(265, 10), league |-> "NBA"],
     [name |-> GiannisSr, team |-> "MIL", stat_type |-> Assists,
      line_score |-> Q(75, 10), league |-> "NBA"],
     [name |-> GiannisJr, team |-> "MIL", stat_type |-> Assists,
      line_score |-> Q(75, 10), league |-> "NBA"],
     [name |-> GerritCole, team |-> "NYY", stat_type |-> Strikeouts,
      line_score |-> Q(55, 10), league |-> "MLB"],
     [name |-> <<"A">>, team |-> "", stat_type |-> Blocks,
      line_score |-> Q(15, 10), league |-> "NHL"],
     [name |-> <<"A", "B">>, team |-> "", stat_type |-> Locks,
      line_score |-> Q(15, 10), league |-> "NHL"]}

\* the same listed as Kalshi markets
Markets ==
    {[title |-> p.name, stat |-> p.stat_type, line |-> p.line_score,
      sport_label |-> p.league] : p \in Projections}

Digits == <<"0", "1", "2", "3", "4", "5", "6", "7", "8", "9">>

\* LongFeed projections of as many players, alike but for the name
LongProjections ==
    [i \in 1..LongFeed |->
        [name |-> <<"P", Digits[(i \div 10) + 1], Digits[(i % 10) + 1]>>,
         team |-> "", stat_type |-> Points, line_score |-> Q(265, 10),
         league |-> "NBA"]]

PrizePicksFeeds ==
    {fetch_prizepicks(l) : l \in SeqsUpTo(Projections, MaxFeed)}

KalshiFeeds == {fetch_kalshi(l) : l \in SeqsUpTo(Markets, MaxFeed)}

\* the feeds of the calls that filter: at most one pick each, or the long one
ShortFeeds(feeds) == {f \in feeds : Len(f) <= 1}

PicksCalls ==
    {[fn |-> "get_all_picks", pp |-> pp, kl |-> kl] :
        pp \in PrizePicksFeeds \cup {fetch_prizepicks(LongProjections)},
        kl \in KalshiFeeds}
    \cup
    {[fn |-> "get_by_sport", sport |-> sp, pp |-> pp, kl |-> kl] :
        sp \in {"nba", "MLB", "EPL"}, pp \in ShortFeeds(PrizePicksFeeds),
        kl \in ShortFeeds(KalshiFeeds)}
    \cup
    {[fn |-> "get_by_source", source |-> src, pp |-> pp, kl |-> kl] :
        src \in {"PrizePicks", "Kalshi"}, pp \in ShortFeeds(PrizePicksFeeds),
        kl \in ShortFeeds(KalshiFeeds)}
    \cup
    {[fn |-> "get_top_picks", n |-> n, pp |-> pp, kl |-> kl] :
        n \in {0, 1, 5},
        pp \in ShortFeeds(PrizePicksFeeds)
                 \cup {fetch_prizepicks(LongProjections)},
        kl \in ShortFeeds(KalshiFeeds)}

\* the bodies of /api/picks over time: the slate with two games, a prop and
\* a market; the same after the odds of the first game and the market moved
\* and the second game and the prop left; and a body without picks
Slates ==
    {[sportsbook_picks |->
        <<[id |-> "Lakers_Celtics_NBA", ev_bet |-> "Lakers", sport |-> "NBA",
           win_prob |-> RInt(65), ev_dec |-> Q(183, 100), risk |-> "LOW"],
          [id |-> "Chiefs_Jets_NFL", ev_bet |-> "Jets +7", sport |-> "NFL",
           win_prob |-> RInt(70), ev_dec |-> Q(182, 100), risk |-> "HIGH"]>>,
      prizepicks_props |->
        <<[id |-> "pp_1", ev_bet |-> "Kevin Durant Points O26.5",
           sport |-> "NBA", win_prob |-> RInt(50), ev_dec |-> Q(185, 100),
           risk |-> "MEDIUM"]>>,
      kalshi_markets |->
        <<[id |-> "kalshi_NBA", ev_bet |-> "Lakers win the title",
           sport |-> "General", win_prob |-> RInt(40),
           ev_dec |-> Q(25, 10), risk |-> "HIGH"]>>],
     [sportsbook_picks |->
        <<[id |-> "Lakers_Celtics_NBA", ev_bet |-> "Celtics", sport |-> "NBA",
           win_prob |-> RInt(60), ev_dec |-> Q(23, 10), risk |-> "LOW"]>>,
      prizepicks_props |-> <<>>,
      kalshi_markets |->
        <<[id |-> "kalshi_NBA", ev_bet |-> "Lakers win the title",
           sport |-> "General", win_prob |-> RInt(50),
           ev_dec |-> RInt(2), risk |-> "HIGH"]>>],
     [sportsbook_picks |-> <<>>, prizepicks_props |-> <<>>,
      kalshi_markets |-> <<>>]}

\* the number of pairs a call draws from the generator
Needs(c) ==
    IF c.fn = "monte_carlo" THEN (IF c.n > 0 THEN c.n ELSE 0)
    ELSE IF c.fn = "gauss_pair" THEN 1
    ELSE IF c.fn = "run_matchup_analysis" THEN NUM_SIMULATIONS
    ELSE IF c.fn = "run_quant_engine" THEN c.simulations
    ELSE 0

Pending(f) == call.fn = f /\ ret = <<>>

\* the next n pairs of the generator, and the last n it yielded
Upcoming(n) == SubSeq(rng.seq, rng.pos + 1, rng.pos + n)

Drawn(n) == SubSeq(rng.seq, rng.pos - n + 1, rng.pos)

\* the generator can yield n more pairs (the model's streams are finite)
CanDraw(n) == rng.pos + n <= Len(rng.seq)

\* the generator in the states that yield n pairs, and one never drawn from
Generators(n) == {[seq |-> st, pos |-> 0] : st \in Streams(n)}

Unused == [seq |-> <<>>, pos |-> 0]

\* no session cookie and no page: the operation is called directly
NoWeb == session = <<>> /\ page = <<>>

\* a return that leaves the generator alone
Return(v) == ret' = <<v>> /\ UNCHANGED <<call, rng, session, page>>

\* a return after n pairs were drawn from the generator
Yield(v, n) ==
    /\ ret' = <<v>>
    /\ rng' = [rng EXCEPT !.pos = @ + n]
    /\ UNCHANGED <<call, session, page>>

GaussPair ==
    /\ Pending("gauss_pair")
    /\ CanDraw(1)
    /\ Yield(gauss_pair(call.mu_a, call.mu_b, call.sigma, call.corr,
                        Upcoming(1)[1][1], Upcoming(1)[1][2]), 1)

MonteCarlo ==
    /\ Pending("monte_carlo")
    /\ CanDraw(Needs(call))
    /\ Yield(monte_carlo(call.baseline_a, call.baseline_b, call.sport,
                         call.n, Upcoming(Needs(call))), Needs(call))

RunMatchupAnalysis ==
    /\ Pending("run_matchup_analysis")
    /\ CanDraw(NUM_SIMULATIONS)
    /\ Yield(run_matchup_analysis(call.matchup, Upcoming(NUM_SIMULATIONS)),
             NUM_SIMULATIONS)

RunQuantEngine ==
    /\ Pending("run_quant_engine")
    /\ CanDraw(call.simulations)
    /\ Yield(run_quant_engine(call.m, call.simulations,
                              Upcoming(call.simulations)), call.simulations)

FractionalKelly ==
    /\ Pending("fractional_kelly")
    /\ Return(fractional_kelly(call.win_prob, call.dec_odds, call.fraction))

Kelly ==
    /\ Pending("kelly")
    /\ Return(kelly(call.prob, call.odds))

ComputeEv ==
    /\ Pending("compute_ev")
    /\ Return(compute_ev(call.win_prob, call.market_odds, call.stake))

CalculateParlay ==
    /\ Pending("calculate_parlay")
    /\ Return(calculate_parlay(call.legs))

BuildOptimalParlay ==
    /\ Pending("build_optimal_parlay")
    /\ Return(build_optimal_parlay(call.all_picks, call.max_legs))

ClassifyLegRisk ==
    /\ Pending("classify_leg_risk")
    /\ Return(classify_leg_risk(call.leg))

Grade ==
    /\ Pending("grade")
    /\ Return(grade(call.edge))

ComputeBaseline ==
    /\ Pending("compute_baseline")
    /\ Return(compute_baseline(call.metrics, call.situational, call.injury,
                               call.historical, call.weights, call.scale))

AmericanToDecimal ==
    /\ Pending("american_to_decimal")
    /\ Return(american_to_decimal(call.odds))

DecimalToAmerican ==
    /\ Pending("decimal_to_american")
    /\ Return(decimal_to_american(call.dec))

GetAllPicks ==
    /\ Pending("get_all_picks")
    /\ Return(get_all_picks(call.pp, call.kl))

GetBySport ==
    /\ Pending("get_by_sport")
    /\ Return(get_by_sport(call.sport, call.pp, call.kl))

GetBySource ==
    /\ Pending("get_by_source")
    /\ Return(get_by_source(call.source, call.pp, call.kl))

GetTopPicks ==
    /\ Pending("get_top_picks")
    /\ Return(get_top_picks(call.n, call.pp, call.kl))

RemoveVig ==
    /\ Pending("remove_vig")
    /\ Return(remove_vig(call.p_a, call.p_b))

\* decimal_to_american(american_to_decimal(x)): the decimal odds that came
\* back are handed on, x kept beside them
ConvertBack ==
    /\ call.fn = "american_to_decimal"
    /\ ret # <<>>
    /\ ~Raised(ret[1])
    /\ call' = [fn |-> "decimal_to_american", dec |-> ret[1], odds |-> call.odds]
    /\ ret' = <<>>
    /\ UNCHANGED <<rng, session, page>>

\* a request is answered: the response goes out with the session cookie
Serve(request, out) ==
    /\ call' = request
    /\ ret' = <<out.response>>
    /\ session' = out.session
    /\ UNCHANGED <<rng, page>>

LoginGet == Serve([fn |-> "login", method |-> "GET"], login("GET", <<>>, session))

LoginPost ==
    \E form \in LoginForms :
        Serve([fn |-> "login", method |-> "POST", form |-> form],
              login("POST", form, session))

Logout == Serve([fn |-> "logout"], logout(session))

Index == Serve([fn |-> "index"], index(session))

ApiPicks == Serve([fn |-> "api_picks"], api_picks(session))

ApiParlay ==
    \E json \in ParlayBodies :
        Serve([fn |-> "api_parlay", json |-> json], api_parlay(json, session))

Health == Serve([fn |-> "health"], health(session))

\* a handler of the page ran: call is the handler and its argument
Handle(event, pg) ==
    /\ session = [auth |-> TRUE]
    /\ call' = event
    /\ ret' = <<>>
    /\ page' = pg
    /\ UNCHANGED <<rng, session>>

LoadData ==
    \E d \in Slates : Handle([fn |-> "loadData", d |-> d], loadData(page, d))

ToggleLeg ==
    \E p \in pick_cards(page) :
        Handle([fn |-> "toggleLeg", id |-> p.id], toggleLeg(page, p))

ToggleProp ==
    \E id \in prop_buttons(page) :
        Handle([fn |-> "toggleProp", id |-> id], toggleProp(page, id))

ToggleKalshi ==
    \E id \in page.kalshi_grid :
        Handle([fn |-> "toggleKalshi", id |-> id], toggleKalshi(page, id))

RemoveLeg ==
    \E i \in 1..Len(page.parlayLegs) :
        Handle([fn |-> "removeLeg", id |-> page.parlayLegs[i].id],
               removeLeg(page, page.parlayLegs[i].id))

ClearSlip == Handle([fn |-> "clearSlip"], clearSlip(page))

\* the caller makes its next call once the last one returned
SharedCalls ==
    {c \in MonteCarloCalls : c.n >= 1} \cup
    {c \in MatchupCalls : c.matchup.sport = "NBA" /\ c.matchup.market_odds = <<>>}

Invoke ==
    /\ ret # <<>>
    /\ call' \in SharedCalls
    /\ ret' = <<>>
    /\ UNCHANGED <<rng, session, page>>

\* one call of the simulator: the generator in any state
InitMonteCarlo ==
    /\ call \in MonteCarloCalls \cup GaussPairCalls
    /\ rng \in Generators(Needs(call))
    /\ ret = <<>>
    /\ NoWeb

NextMonteCarlo == MonteCarlo \/ GaussPair

SpecMonteCarlo == InitMonteCarlo /\ [][NextMonteCarlo]_vars

\* one matchup analysis of the bot
InitMatchup ==
    /\ call \in MatchupCalls
    /\ rng \in Generators(Needs(call))
    /\ ret = <<>>
    /\ NoWeb

SpecMatchup == InitMatchup /\ [][RunMatchupAnalysis]_vars

\* one run of the dashboard's quant engine
InitQuant ==
    /\ call \in QuantCalls
    /\ rng \in Generators(Needs(call))
    /\ ret = <<>>
    /\ NoWeb

SpecQuant == InitQuant /\ [][RunQuantEngine]_vars

\* the two places that select a side of a two-outcome market
InitSelection ==
    /\ call \in MatchupCalls \cup QuantCalls
    /\ rng \in Generators(Needs(call))
    /\ ret = <<>>
    /\ NoWeb

NextSelection == RunMatchupAnalysis \/ RunQuantEngine

SpecSelection == InitSelection /\ [][NextSelection]_vars

\* the Kelly engine
InitKelly == call \in KellyCalls /\ rng = Unused /\ ret = <<>> /\ NoWeb

NextKelly == FractionalKelly \/ Kelly \/ ComputeEv

SpecKelly == InitKelly /\ [][NextKelly]_vars

\* the parlay aggregator
InitParlay == call \in ParlayCalls /\ rng = Unused /\ ret = <<>> /\ NoWeb

NextParlay == CalculateParlay \/ BuildOptimalParlay

SpecParlay == InitParlay /\ [][NextParlay]_vars

\* the decision rules and the odds conversions
InitRules ==
    /\ call \in RiskCalls \cup GradeCalls \cup BaselineCalls \cup OddsCalls
    /\ rng = Unused
    /\ ret = <<>>
    /\ NoWeb

NextRules ==
    \/ ClassifyLegRisk
    \/ Grade
    \/ ComputeBaseline
    \/ AmericanToDecimal
    \/ DecimalToAmerican

SpecRules == InitRules /\ [][NextRules]_vars

\* the odds arithmetic of the dashboard
InitOdds ==
    /\ call \in RoundTripCalls \cup VigCalls
    /\ rng = Unused
    /\ ret = <<>>
    /\ NoWeb

NextOdds == AmericanToDecimal \/ ConvertBack \/ DecimalToAmerican \/ RemoveVig

SpecOdds == InitOdds /\ [][NextOdds]_vars

\* the bot's pick lists, for what the two feeds returned
InitPicks ==
    /\ call \in PicksCalls
    /\ rng = Unused
    /\ ret = <<>>
    /\ NoWeb

NextPicks == GetAllPicks \/ GetBySport \/ GetBySource \/ GetTopPicks

SpecPicks == InitPicks /\ [][NextPicks]_vars

\* one browser session of the dashboard, from its first request on
InitRoutes ==
    /\ call = [fn |-> "connect"]
    /\ ret = <<>>
    /\ rng = Unused
    /\ session = <<>>
    /\ page = <<>>

NextRoutes ==
    LoginGet \/ LoginPost \/ Logout \/ Index \/ ApiPicks \/ ApiParlay \/ Health

SpecRoutes == InitRoutes /\ [][NextRoutes]_vars

\* the dashboard page in the browser of a logged-in user, from the moment
\* its script starts
InitPage ==
    /\ call = [fn |-> "index"]
    /\ ret = <<>>
    /\ rng = Unused
    /\ session = [auth |-> TRUE]
    /\ page = NewPage

NextPage ==
    LoadData \/ ToggleLeg \/ ToggleProp \/ ToggleKalshi \/ RemoveLeg \/ ClearSlip

SpecPage == InitPage /\ [][NextPage]_vars

\* the bot's process: the generator seeded once, then one simulation after
\* another
InitShared ==
    /\ call \in SharedCalls
    /\ rng \in {[seq |-> SeedStream(seed), pos |-> 0] : seed \in 1..2}
    /\ ret = <<>>
    /\ NoWeb

NextShared == MonteCarlo \/ RunMatchupAnalysis \/ Invoke

SpecShared == InitShared /\ [][NextShared]_vars

\* the whole core
Init ==
    /\ call \in MonteCarloCalls \cup GaussPairCalls \cup MatchupCalls
                \cup QuantCalls \cup KellyCalls \cup ParlayCalls
                \cup RiskCalls \cup GradeCalls \cup BaselineCalls \cup OddsCalls
                \cup VigCalls \cup PicksCalls
    /\ rng \in Generators(Needs(call))
    /\ ret = <<>>
    /\ NoWeb

Next ==
    \/ NextMonteCarlo
    \/ RunMatchupAnalysis
    \/ RunQuantEngine
    \/ NextKelly
    \/ NextParlay
    \/ NextRules
    \/ NextOdds
    \/ NextPicks
    \/ Invoke

Spec == Init /\ [][Next]_vars

-----------------------------------------------------------------------------
(* Properties.  Returned(f) holds in the states where a call of f has       *)
(* returned; Result is then the value it returned.                          *)

Returned(f) == call.fn = f /\ ret # <<>>

Result == ret[1]

\* the leg's fields as classify_leg_risk reads them
LegType(leg) == IF "leg_type" \in DOMAIN leg THEN leg.leg_type ELSE ""

LegLine(leg) == IF "line" \in DOMAIN leg THEN leg.line ELSE RZero

LegWinProb(leg) == IF "win_prob" \in DOMAIN leg THEN leg.win_prob ELSE RInt(50)

\* no prop-line or spread rule of classify_leg_risk matches the leg
NoLineRule(leg) ==
    /\ ~(LegType(leg) = "prop" /\ RLe(RInt(20), LegLine(leg)))
    /\ ~(LegType(leg) \in {"spread", "runline"}
            /\ RLt(Q(65, 10), RAbs(LegLine(leg))))

\* C1: for every trial count n >= 1 the two win probabilities of the result
\* of monte_carlo sum to 1.0 and those of run_quant_engine to 100%, as
\* reported after rounding.
C1_WinProbsSumToOne ==
    /\ (Returned("monte_carlo") /\ call.n >= 1) =>
           REq(RAdd(Result.TeamA_WinProb, Result.TeamB_WinProb), ROne)
    /\ (Returned("run_quant_engine") /\ call.simulations >= 1) =>
           (Raised(Result)
               \/ REq(RAdd(Result.win_prob_a, Result.win_prob_b), RInt(100)))

\* the trials of the returned monte_carlo call that ended level
TrialTies ==
    {i \in 1..call.n : REq(gauss_pair(call.baseline_a, call.baseline_b,
                                       Get(SPORT_STD, call.sport, SPORT_STD["DEFAULT"]),
                                       Q(15, 100), Drawn(call.n)[i][1],
                                       Drawn(call.n)[i][2])[1],
                            gauss_pair(call.baseline_a, call.baseline_b,
                                       Get(SPORT_STD, call.sport, SPORT_STD["DEFAULT"]),
                                       Q(15, 100), Drawn(call.n)[i][1],
                                       Drawn(call.n)[i][2])[2])}

\* the trials side A strictly won
TrialsWonByA ==
    {i \in 1..call.n : RLt(gauss_pair(call.baseline_a, call.baseline_b,
                                       Get(SPORT_STD, call.sport, SPORT_STD["DEFAULT"]),
                                       Q(15, 100), Drawn(call.n)[i][1],
                                       Drawn(call.n)[i][2])[2],
                            gauss_pair(call.baseline_a, call.baseline_b,
                                       Get(SPORT_STD, call.sport, SPORT_STD["DEFAULT"]),
                                       Q(15, 100), Drawn(call.n)[i][1],
                                       Drawn(call.n)[i][2])[1])}

\* C2: a trial whose two scores are equal counts half for each side: a
\* side's win probability is (trials it strictly won + half the tied
\* trials) / n.
C2_TiesSplitEvenly ==
    (Returned("monte_carlo") /\ call.n >= 1) =>
        /\ Result.TeamA_WinProb =
               Round(Fl(Q(2 * Cardinality(TrialsWonByA) + Cardinality(TrialTies),
                          2 * call.n)), 4)
        /\ Result.TeamB_WinProb =
               Round(Fl(Q(2 * (call.n - Cardinality(TrialsWonByA)
                                    - Cardinality(TrialTies))
                             + Cardinality(TrialTies),
                          2 * call.n)), 4)

\* the number of trials of the returned run_quant_engine call that side A won
QuantWinsA ==
    Cardinality({i \in 1..call.simulations :
        RLt(RSub(RMul(Get(DASH_SPORT_STD, call.m.sport, RInt(10)),
                      Drawn(call.simulations)[i][2]),
                 RDiv(call.m.baseline_diff, RInt(2))),
            RAdd(RMul(Get(DASH_SPORT_STD, call.m.sport, RInt(10)),
                      Drawn(call.simulations)[i][1]),
                 RDiv(call.m.baseline_diff, RInt(2))))})

QuantProbA == Fl(Q(QuantWinsA, call.simulations))

QuantProbB == Fl(RSub(ROne, QuantProbA))

\* the EV of a unit stake at American odds
QuantEv(p, odds) ==
    RSub(RMul(p, RSub(american_to_decimal(odds), ROne)), RSub(ROne, p))

QuantEvA == QuantEv(QuantProbA, call.m.market_odds_a)

QuantEvB == QuantEv(QuantProbB, call.m.market_odds_b)

\* the selection rule over the two EVs and the selected label: a selected
\* side has EV > 0 and EV >= the other side's, the side with the strictly
\* greater positive EV is selected, and no side is selected iff no EV is
\* positive
SideRule(ev_a, ev_b, bet, side_a, side_b, none) ==
    /\ bet \in {side_a, side_b, none}
    /\ bet = side_a => (ev_a.sg > 0 /\ RLe(ev_b, ev_a))
    /\ bet = side_b => (ev_b.sg > 0 /\ RLe(ev_a, ev_b))
    /\ (ev_a.sg > 0 /\ RLt(ev_b, ev_a)) => bet = side_a
    /\ (ev_b.sg > 0 /\ RLt(ev_a, ev_b)) => bet = side_b
    /\ bet = none <=> (ev_a.sg <= 0 /\ ev_b.sg <= 0)

\* C3: run_quant_engine and run_matchup_analysis select the side with the
\* strictly greater EV provided it is positive, and with no positive EV
\* return the no-edge label with a Kelly stake of zero; so a selected side
\* has EV > 0 and EV >= the other side's, and a side is selected whenever an
\* EV is positive.
C3_SideSelection ==
    /\ (Returned("run_matchup_analysis") /\ ~Raised(Result)) =>
           /\ SideRule(Result.EV_A, Result.EV_B, Result.EV_Bet,
                       call.matchup.team_a, call.matchup.team_b, "No +EV")
           /\ Result.EV_Bet = "No +EV" => Result.Kelly_Stake = RZero
    /\ (Returned("run_quant_engine") /\ ~Raised(Result)) =>
           /\ SideRule(QuantEvA, QuantEvB, Result.ev_bet,
                       call.m.team_a, call.m.team_b, "No Edge")
           /\ Result.ev_bet = "No Edge" => Result.kelly = RZero

\* side B selected where both EVs are positive and B's is the greater
C3_Witness ==
    /\ Returned("run_matchup_analysis")
    /\ ~Raised(Result)
    /\ Result.EV_Bet = call.matchup.team_b
    /\ Result.EV_A.sg > 0
    /\ RLt(Result.EV_A, Result.EV_B)

\* C4: whenever the EVs of the two sides are equal and positive, side A is
\* selected, with side A's Kelly stake and odds.
C4_TieBreakPrefersA ==
    /\ (Returned("run_matchup_analysis") /\ ~Raised(Result)
           /\ Result.EV_A = Result.EV_B /\ Result.EV_A.sg > 0) =>
           /\ Result.EV_Bet = call.matchup.team_a
           /\ Result.Kelly_Stake =
                  Nth(compute_ev(Result.TeamA_WinProb,
                                 Get(call.matchup.market_odds, "TeamA", Q(190, 100)),
                                 RInt(100)), 2)
    /\ (Returned("run_quant_engine") /\ ~Raised(Result)
           /\ REq(QuantEvA, QuantEvB) /\ QuantEvA.sg > 0) =>
           /\ Result.ev_bet = call.m.team_a
           /\ Result.ev_odds = call.m.market_odds_a
           /\ Result.ev_dec = american_to_decimal(call.m.market_odds_a)
           /\ Result.kelly =
                  Round(RMul(fractional_kelly(QuantProbA,
                                 american_to_decimal(call.m.market_odds_a),
                                 Q(25, 100)), RInt(100)), 2)

\* the two EVs tied at odds +500 and +100, where the Kelly stakes of the two
\* sides differ, and side A was selected
C4_Witness ==
    /\ Returned("run_quant_engine")
    /\ call.m.market_odds_a # call.m.market_odds_b
    /\ REq(QuantEvA, QuantEvB)
    /\ QuantEvA.sg > 0
    /\ Result.ev_bet = call.m.team_a
    /\ Result.kelly = Q(25, 10)

\* max(0, (b*p - (1-p)) / b) for b = odds - 1, b # 0
KellyFull(p, odds) ==
    RMax(RZero, RDiv(RSub(RMul(RSub(odds, ROne), p), RSub(ROne, p)),
                     RSub(odds, ROne)))

\* the same where the odds pay something, and 0 at odds <= 1
KellyGuarded(p, odds) ==
    IF RLe(odds, ROne) THEN RZero ELSE KellyFull(p, odds)

\* x is y rounded to nd decimals by the program: a multiple of 10^-nd within
\* half a unit of y, up to the error of the float operations (< 10^-9)
RoundedTo(x, y, nd) ==
    /\ REq(Round(x, nd), x)
    /\ RLe(RAbs(RSub(x, y)),
           RAdd(RDiv(Q(1, 2), RInt(10 ^ nd)), Q(1, 10 ^ 9)))

SharesSport(i) ==
    \E j \in 1..Len(call.legs) :
        /\ j # i
        /\ Get(call.legs[j], "sport", "UNK") = Get(call.legs[i], "sport", "UNK")

\* the product of a sequence of rationals
RECURSIVE RProd(_)
RProd(s) == IF s = <<>> THEN ROne ELSE RMul(Head(s), RProd(Tail(s)))

\* C6: calculate_parlay multiplies by 0.97, once, the win probability of
\* every leg whose sport occurs on more than one leg, leaves the others as
\* they are, and returns the product as the combined probability (in
\* percent, to 2 decimals).
C6_CorrelationHaircut ==
    (Returned("calculate_parlay") /\ call.legs # <<>> /\ ~Raised(Result)) =>
        Result.combined_prob =
            Round(RMul(RProd([i \in 1..Len(call.legs) |->
                               IF SharesSport(i)
                               THEN RMul(RDiv(Get(call.legs[i], "win_prob", RInt(50)),
                                              RInt(100)), Q(97, 100))
                               ELSE RDiv(Get(call.legs[i], "win_prob", RInt(50)),
                                         RInt(100))]),
                       RInt(100)), 2)

\* legs 0.65 and 0.60 sharing a sport and 0.70 with another combined to
\* 0.65*0.97 * 0.60*0.97 * 0.70 = 25.69%
C6_Witness ==
    /\ Returned("calculate_parlay")
    /\ Len(call.legs) = 3
    /\ call.legs[1].ev_bet = "Lakers"
    /\ call.legs[2].ev_bet = "Celtics"
    /\ call.legs[3].ev_bet = "Chiefs"
    /\ Result.combined_prob = Q(2569, 100)

\* the EV of the parlay as one bet is positive
ParlayEvPositive ==
    RLt(RSub(ROne, combined_prob_of(call.legs, Len(call.legs))),
        RMul(combined_prob_of(call.legs, Len(call.legs)),
             RSub(parlay_dec_of(call.legs, Len(call.legs)), ROne)))

\* the number of legs of the call whose risk is HIGH
HighCount ==
    Cardinality({i \in 1..Len(call.legs) : Get(call.legs[i], "risk", "") = "HIGH"})

\* C7: the parlay grade depends only on the number h of HIGH legs and on the
\* sign of the parlay EV: A for h = 0 and EV > 0, else B for h <= 1 and
\* EV > 0, else C for h <= 2, else D; no leg's own grade enters.
C7_ParlayGrade ==
    (Returned("calculate_parlay") /\ call.legs # <<>> /\ ~Raised(Result)) =>
        Result.grade =
            (IF HighCount = 0 /\ ParlayEvPositive THEN "A"
             ELSE IF HighCount <= 1 /\ ParlayEvPositive THEN "B"
             ELSE IF HighCount <= 2 THEN "C"
             ELSE "D")

\* a slip holding a leg whose own grade is D was graded A
C7_Witness ==
    /\ Returned("calculate_parlay")
    /\ \E i \in 1..Len(call.legs) : Get(call.legs[i], "grade", "") = "D"
    /\ ~Raised(Result)
    /\ Result.grade = "A"

\* C8: with zero legs calculate_parlay returns its empty result, and so does
\* build_optimal_parlay with an empty pool; neither raises.
C8_EmptyParlay ==
    /\ (Returned("calculate_parlay") /\ call.legs = <<>>) =>
           (Result = EmptyDict /\ ~Raised(Result))
    /\ (Returned("build_optimal_parlay") /\ call.all_picks = <<>>) =>
           (Result = EmptyDict /\ ~Raised(Result))

\* build_optimal_parlay on an empty pool returned the empty result
C8_Witness ==
    /\ Returned("build_optimal_parlay")
    /\ call.all_picks = <<>>
    /\ call.max_legs > 0
    /\ Result = EmptyDict

\* the picks of the build_optimal_parlay call with positive EV and not HIGH
EvCandidates ==
    {i \in 1..Len(call.all_picks) :
        /\ Get(call.all_picks[i], "has_edge", FALSE)
        /\ Get(call.all_picks[i], "risk", "") # "HIGH"}

\* the picks the parlay is built from, and the score that ranks them
RankedPool ==
    IF EvCandidates # {} THEN EvCandidates ELSE 1..Len(call.all_picks)

RankScore(i) ==
    IF EvCandidates # {}
    THEN RAdd(Get(call.all_picks[i], "edge", RZero),
              RMul(Get(call.all_picks[i], "win_prob", RZero), Q(1, 2)))
    ELSE Get(call.all_picks[i], "win_prob", RZero)

\* legs are picks of the pool, each taken once, in descending order of
\* score, none of the picks left out outranking the last one taken
TopRanked(legs) ==
    \E f \in [1..Len(legs) -> RankedPool] :
        /\ \A j \in 1..Len(legs) : legs[j] = call.all_picks[f[j]]
        /\ \A j, k \in 1..Len(legs) :
               j < k => (f[j] # f[k] /\ RLe(RankScore(f[k]), RankScore(f[j])))
        /\ \A i \in RankedPool \ {f[j] : j \in 1..Len(legs)} :
               \A j \in 1..Len(legs) : RLe(RankScore(i), RankScore(f[j]))

\* C9: build_optimal_parlay(pool, K) builds its parlay from the at most K
\* highest-ranked picks that have positive EV and are not HIGH risk, ranked
\* by edge + 0.5 * win probability, and, only when no pick passes that
\* filter, from the at most K picks of the pool with the highest win
\* probability; the result never has more than K legs.
C9_TopKLegs ==
    (Returned("build_optimal_parlay") /\ ~Raised(Result)) =>
        IF Result = EmptyDict
        THEN call.max_legs = 0 \/ call.all_picks = <<>>
        ELSE /\ Result.num_legs <= call.max_legs
             /\ Result.num_legs = Len(Result.legs)
             /\ Result.num_legs =
                    (IF Cardinality(RankedPool) < call.max_legs
                     THEN Cardinality(RankedPool) ELSE call.max_legs)
             /\ TopRanked(Result.legs)

\* of three picks that pass the filter the two highest-ranked were taken
C9_Witness ==
    /\ Returned("build_optimal_parlay")
    /\ Len(call.all_picks) = 3
    /\ Cardinality(EvCandidates) = 3
    /\ call.max_legs = 2
    /\ ~Raised(Result)
    /\ Result.num_legs = 2
    /\ Result.legs[1].ev_bet = "Lakers"
    /\ Result.legs[2].ev_bet = "Celtics"

\* the projected spread of the returned run_quant_engine call: the mean of
\* the score differences of its trials
QuantSpread ==
    RAdd(call.m.baseline_diff,
         RMul(Get(DASH_SPORT_STD, call.m.sport, RInt(10)),
              RDiv(SeqSum([i \in 1..call.simulations |->
                             RSub(Drawn(call.simulations)[i][1],
                                  Drawn(call.simulations)[i][2])]),
                   RInt(call.simulations))))

\* C10: a recommendation whose spread or line exceeds 6.5 in magnitude is
\* classified HIGH whatever its win probability, and so is the pick that
\* run_quant_engine classifies from its projected spread.
C10_LargeSpreadIsHigh ==
    /\ (Returned("classify_leg_risk")
           /\ RLt(Q(65, 10), RAbs(Get(call.leg, "line", RZero)))) =>
           Result = "HIGH"
    /\ (Returned("run_quant_engine") /\ ~Raised(Result)
           /\ RLt(Q(65, 10), RAbs(QuantSpread))) =>
           Result.risk = "HIGH"

\* C11: when no line rule matches, classify_leg_risk returns HIGH for a win
\* probability below 52, MED from 52 up to but excluding 58, and LOW from 58
\* on; 52 itself is MED and 58 itself is LOW.
C11_RiskByWinProb ==
    (Returned("classify_leg_risk") /\ NoLineRule(call.leg)) =>
        Result = (IF RLt(LegWinProb(call.leg), RInt(52)) THEN "HIGH"
                  ELSE IF RLt(LegWinProb(call.leg), RInt(58)) THEN "MED"
                  ELSE "LOW")

\* a leg at the boundary 52 with no line rule matching was classified MED
C11_Witness ==
    /\ Returned("classify_leg_risk")
    /\ NoLineRule(call.leg)
    /\ LegWinProb(call.leg) = RInt(52)
    /\ Result = "MED"

GradeRank(g) ==
    CASE g = "D" -> 0 [] g = "C" -> 1 [] g = "B" -> 2 [] g = "A" -> 3
      [] g = "A+" -> 4

\* C12: grade is monotonic: no smaller edge gets a higher grade than the
\* edge just graded and no larger edge a lower one, under D < C < B < A < A+;
\* the thresholds 5%, 8%, 11% and 14% get the higher grade.
C12_GradeMonotonic ==
    Returned("grade") =>
        /\ \A c \in GradeCalls :
              /\ RLe(c.edge, call.edge) =>
                    GradeRank(grade(c.edge)) <= GradeRank(Result)
              /\ RLe(call.edge, c.edge) =>
                    GradeRank(Result) <= GradeRank(grade(c.edge))
        /\ call.edge = Q(5, 100) => Result = "C"
        /\ call.edge = Q(8, 100) => Result = "B"
        /\ call.edge = Q(11, 100) => Result = "A"
        /\ call.edge = Q(14, 100) => Result = "A+"

\* the threshold 11% was graded A
C12_Witness == Returned("grade") /\ call.edge = Q(11, 100) /\ Result = "A"

\* C14: american_to_decimal(0) fails with InvalidConfiguration, and
\* decimal_to_american fails for every dec <= 1.0, returning no value.
C14_InvalidOddsRejected ==
    /\ (Returned("american_to_decimal") /\ call.odds.sg = 0) =>
           Result = Raise("InvalidConfiguration")
    /\ (Returned("decimal_to_american") /\ RLe(call.dec, ROne)) =>
           Raised(Result)

\* C13: the simulator fails with InvalidConfiguration, before it draws any
\* sample and without returning a result, whenever the trial count is <= 0,
\* the standard deviation is <= 0 or the correlation is outside [-1, 1].
C13_InvalidConfigurationRejected ==
    /\ (Returned("monte_carlo") /\ call.n <= 0) =>
           (Result = Raise("InvalidConfiguration") /\ rng.pos = 0)
    /\ (Returned("gauss_pair")
           /\ (call.sigma.sg <= 0 \/ RLt(ROne, RAbs(call.corr)))) =>
           (Result = Raise("InvalidConfiguration") /\ rng.pos = 0)

\* the simulation a monte_carlo or run_matchup_analysis call would make with a
\* generator of its own, seeded as the process was
OwnSourceResult ==
    IF call.fn = "monte_carlo"
    THEN monte_carlo(call.baseline_a, call.baseline_b, call.sport, call.n,
                     SubSeq(rng.seq, 1, call.n))
    ELSE run_matchup_analysis(call.matchup, SubSeq(rng.seq, 1, NUM_SIMULATIONS))

\* C15: every simulation draws from its own injected source, so what a
\* simulation started from a fixed seed returns is the same whatever other
\* simulations ran before it.
C15_OwnSeededSource ==
    (Returned("monte_carlo") \/ Returned("run_matchup_analysis")) =>
        Result = OwnSourceResult

\* the score of side 1 (A) or 2 (B) in the i-th trial of the monte_carlo call
\* that returned, from the pairs the generator yielded to it
TrialScore(side, i) ==
    IF side = 1
    THEN RAdd(call.baseline_a,
              RMul(Get(SPORT_STD, call.sport, SPORT_STD["DEFAULT"]),
                   Drawn(call.n)[i][1]))
    ELSE RAdd(call.baseline_b,
              RMul(Get(SPORT_STD, call.sport, SPORT_STD["DEFAULT"]),
                   RAdd(RMul(Q(15, 100), Drawn(call.n)[i][1]),
                        Drawn(call.n)[i][2])))

Trials == 1..call.n

TrialWinsA == Cardinality({i \in Trials : RLt(TrialScore(2, i), TrialScore(1, i))})

TrialMean(side) ==
    RDiv(SeqSum([i \in Trials |-> TrialScore(side, i)]), RInt(call.n))

\* v is the score, rounded to nd decimals, that stands at index k (from 0)
\* when all the trials' scores of the side are put in ascending order
OrderStatistic(v, side, k, nd) ==
    \E i \in Trials :
        /\ v = Round(TrialScore(side, i), nd)
        /\ Cardinality({j \in Trials :
                           RLt(TrialScore(side, j), TrialScore(side, i))}) <= k
        /\ Cardinality({j \in Trials :
                           RLe(TrialScore(side, j), TrialScore(side, i))}) > k

C17_NoStateAcrossCalls ==
    [][ret = <<>> => (call' = call /\ rng' = rng)]_vars

\* the combined probability P and the combined decimal odds D of the legs of
\* the calculate_parlay call
ParlayP == combined_prob_of(call.legs, Len(call.legs))

ParlayD == parlay_dec_of(call.legs, Len(call.legs))

ParlayEv == RSub(RMul(ParlayP, RSub(ParlayD, ROne)), RSub(ROne, ParlayP))

\* C18: for every non-empty leg list, lists with D <= 1.0 included,
\* calculate_parlay returns a slip whose EV is P*(D-1) - (1-P) and whose Kelly
\* stake is fractional_kelly(P, D, 0.25), both as percentages.
C18_ParlayAsOneBet ==
    (Returned("calculate_parlay") /\ call.legs # <<>>) =>
        /\ ~Raised(Result)
        /\ Result.ev = Round(RMul(ParlayEv, RInt(100)), 2)
        /\ Result.kelly_pct =
               Round(RMul(fractional_kelly(ParlayP, ParlayD, Q(25, 100)),
                          RInt(100)), 2)

HighLegs == {i \in 1..Len(call.legs) : Get(call.legs[i], "risk", "") = "HIGH"}

\* the warnings of the returned slip that are of the kind
WarningsOf(kind) ==
    {i \in 1..Len(Result.warnings) : Result.warnings[i].kind = kind}

\* the names the HIGH-risk warning lists are those of the HIGH legs, in order
NamesHighLegs(names) ==
    /\ Len(names) = Cardinality(HighLegs)
    /\ \A i \in 1..Len(names) :
           \E j \in HighLegs :
               /\ names[i] = Get(call.legs[j], "ev_bet", "?")
               /\ Cardinality({k \in HighLegs : k < j}) = i - 1

\* C19: the slip carries one warning naming the HIGH legs iff a leg is HIGH,
\* one iff there are more than 6 legs, one iff the combined probability is
\* below 5%, and no other; with or without warnings the slip is returned with
\* the probability, odds, EV, Kelly stake and grade its legs give.
C19_WarningsInformational ==
    (Returned("calculate_parlay") /\ call.legs # <<>> /\ ~REq(ParlayD, ROne)) =>
        /\ ~Raised(Result)
        /\ Cardinality(WarningsOf("high_risk")) =
               (IF HighLegs # {} THEN 1 ELSE 0)
        /\ \A i \in WarningsOf("high_risk") :
               NamesHighLegs(Result.warnings[i].names)
        /\ Cardinality(WarningsOf("too_many_legs")) =
               (IF Len(call.legs) > 6 THEN 1 ELSE 0)
        /\ Cardinality(WarningsOf("low_probability")) =
               (IF RLt(ParlayP, Q(5, 100)) THEN 1 ELSE 0)
        /\ Len(Result.warnings) =
               Cardinality(WarningsOf("high_risk")
                               \cup WarningsOf("too_many_legs")
                               \cup WarningsOf("low_probability"))
        /\ Result.num_legs = Len(call.legs)
        /\ Result.combined_prob = Round(RMul(ParlayP, RInt(100)), 2)
        /\ Result.parlay_odds = Round(ParlayD, 2)
        /\ Result.ev = Round(RMul(ParlayEv, RInt(100)), 2)
        /\ Result.kelly_pct =
               Round(RMul(RMax(RMul(RDiv(ParlayEv, RSub(ParlayD, ROne)),
                                    Q(25, 100)), RZero), RInt(100)), 2)
        /\ Result.grade = parlay_grade_of(Cardinality(HighLegs), ParlayEv)

\* a slip of seven HIGH legs below 5% returned with all three warnings
C19_Witness ==
    /\ Returned("calculate_parlay")
    /\ Len(call.legs) = 7
    /\ HighLegs # {}
    /\ RLt(ParlayP, Q(5, 100))
    /\ ~Raised(Result)
    /\ Len(Result.warnings) = 3
    /\ Result.grade = "D"

\* raw of compute_baseline for the pending call, term by term
BaselineRaw ==
    RAdd(RAdd(RAdd(RMul(Get(call.weights, "off_rating", RZero),
                        call.metrics.off_rating),
                   RMul(Get(call.weights, "def_rating", RZero),
                        call.metrics.def_rating)),
              RAdd(RMul(Get(call.weights, "home", RZero), call.situational.home),
                   RMul(Get(call.weights, "injury", RZero), call.injury.injury))),
         RMul(Get(call.weights, "historical", RZero),
              Get(call.historical, "adjusted_point_diff", RZero)))

BaselineUnfloored ==
    RMul(call.scale, RAdd(ROne, RMul(BaselineRaw, Q(12, 100))))

\* C20: compute_baseline returns scale * (1 + raw * 0.12) floored at
\* scale * 0.5: never below scale * 0.5, never non-positive for a positive
\* scale.
C20_BaselineFloored ==
    Returned("compute_baseline") =>
        /\ Result = RMax(BaselineUnfloored, RMul(call.scale, Q(1, 2)))
        /\ RLe(RMul(call.scale, Q(1, 2)), Result)
        /\ call.scale.sg > 0 => Result.sg > 0

\* a weighted sum so negative that the unfloored baseline is negative came
\* back as scale * 0.5
C20_Witness ==
    /\ Returned("compute_baseline")
    /\ BaselineUnfloored.sg < 0
    /\ Result = RMul(call.scale, Q(1, 2))

\* the sport of the call is in none of the bot's configuration tables
UnknownSport(sport) ==
    sport \notin DOMAIN SPORT_WEIGHTS \cup DOMAIN SPORT_STD \cup DOMAIN SPORT_SCALE

\* the baseline of one side under the DEFAULT weight table and DEFAULT scale
DefaultBaseline(metrics, situational, injury) ==
    compute_baseline(metrics, situational, injury, call.matchup.historical,
                     SPORT_WEIGHTS.DEFAULT, SPORT_SCALE.DEFAULT)

\* the mean of side A's trial scores under the DEFAULT standard deviation
DefaultMeanA ==
    RDiv(SeqSum([i \in 1..NUM_SIMULATIONS |->
                   RAdd(DefaultBaseline(call.matchup.metrics_a,
                                        call.matchup.situational_a,
                                        call.matchup.injury_a),
                        RMul(SPORT_STD.DEFAULT,
                             Drawn(NUM_SIMULATIONS)[i][1]))]),
         RInt(NUM_SIMULATIONS))

Epsilon == [sg |-> 1, n |-> <<1>>, d |-> Two52]

\* the two arguments of the remove_vig call as doubles
VigA == Fl(call.p_a)

VigB == Fl(call.p_b)

\* the arguments are probabilities, not both zero
VigPositive == VigA.sg >= 0 /\ VigB.sg >= 0 /\ RAdd(VigA, VigB).sg > 0

\* C22 as stated: for p_a + p_b > 0 the pair remove_vig returns sums to 1.0
\* and has the ratio of its inputs, out_a * p_b = out_b * p_a, and
\* remove_vig(0.55, 0.55) is (0.5, 0.5).
C22_VigRemovedExactly ==
    (Returned("remove_vig") /\ VigPositive) =>
        /\ ~Raised(Result)
        /\ REq(RAdd(Result[1], Result[2]), ROne)
        /\ REq(RMul(Result[1], VigB), RMul(Result[2], VigA))
        /\ (call.p_a = Q(55, 100) /\ call.p_b = Q(55, 100)) =>
               (REq(Result[1], Q(1, 2)) /\ REq(Result[2], Q(1, 2)))

\* C22: for p_a + p_b > 0 the pair remove_vig returns sums to 1.0 and has
\* the ratio of its inputs to within one spacing of the doubles (2^-52),
\* and remove_vig(0.55, 0.55) is exactly (0.5, 0.5).
C22_VigRemovedToRounding ==
    (Returned("remove_vig") /\ VigPositive) =>
        /\ ~Raised(Result)
        /\ RLe(RAbs(RSub(RAdd(Result[1], Result[2]), ROne)), Epsilon)
        /\ RLe(RAbs(RSub(RMul(Result[1], VigB), RMul(Result[2], VigA))),
               Epsilon)
        /\ (call.p_a = Q(55, 100) /\ call.p_b = Q(55, 100)) =>
               (REq(Result[1], Q(1, 2)) /\ REq(Result[2], Q(1, 2)))

\* a pair came back whose sum is not 1.0
C22_Witness ==
    /\ Returned("remove_vig")
    /\ VigPositive
    /\ ~Raised(Result)
    /\ ~REq(RAdd(Result[1], Result[2]), ROne)

\* the integer the string of decimal_to_american stands for
AmericanValue == Result.val

\* C23 as stated: decimal_to_american(american_to_decimal(x)) is x again for
\* every integer American price x with |x| >= 100, -110, +150 and -200
\* among them.
C23_RoundTripFrom100 ==
    (Returned("decimal_to_american") /\ "odds" \in DOMAIN call
        /\ RLe(RInt(100), RAbs(call.odds))) =>
        /\ ~Raised(Result)
        /\ RInt(AmericanValue) = call.odds

\* C23: decimal_to_american(american_to_decimal(x)) is x again for every
\* integer American price x >= 100 or x <= -101, -110, +150 and -200 among
\* them, the sign "+" standing before the positive ones; -100 comes back as
\* +100.
C23_RoundTrip ==
    (Returned("decimal_to_american") /\ "odds" \in DOMAIN call
        /\ RLe(RInt(100), RAbs(call.odds))) =>
        /\ ~Raised(Result)
        /\ call.odds # RInt(-100) =>
               /\ RInt(AmericanValue) = call.odds
               /\ Result.plus = (call.odds.sg > 0)
        /\ call.odds = RInt(-100) => (Result.plus /\ AmericanValue = 100)

\* the price -110 went through both conversions and came back
C23_Witness ==
    /\ Returned("decimal_to_american")
    /\ "odds" \in DOMAIN call
    /\ call.odds = RInt(-110)
    /\ ~Raised(Result)
    /\ ~Result.plus
    /\ AmericanValue = -110

\* the response just sent carries the dashboard, the picks or a parlay
ProtectedContent ==
    /\ call.fn \in {"index", "api_picks", "api_parlay"}
    /\ ret # <<>>
    /\ Result.status = 200

\* the request just answered is a POST /login with the right password
GoodLogin ==
    /\ call.fn = "login"
    /\ call.method = "POST"
    /\ Get(call.form, "password", "") = ACCESS_PASSWORD

\* C24: in one session the dashboard, /api/picks and /api/parlay answer
\* with content only while the session's auth flag is set; the flag becomes
\* set only by a POST /login with the access password, another login leaves
\* the session as it is, and /logout clears it.
C24_AuthGatesProtectedRoutes ==
    [][/\ ProtectedContent' => authorized(session) /\ authorized(session')
       /\ (authorized(session') /\ ~authorized(session)) => GoodLogin'
       /\ (call'.fn = "login" /\ ~GoodLogin') => session' = session
       /\ call'.fn = "logout" => ~authorized(session')
       /\ (call'.fn \in {"index", "api_picks", "api_parlay"}
              /\ ~authorized(session)) =>
              (~ProtectedContent' /\ ~authorized(session'))]_vars

\* a parlay of two legs was served to a session with the auth flag set
C24_Witness ==
    /\ call.fn = "api_parlay"
    /\ ret # <<>>
    /\ Result.status = 200
    /\ authorized(session)
    /\ Len(Get(call.json, "legs", <<>>)) = MaxPosted

\* C25: calculate_parlay returns a result and never raises for a non-empty
\* leg list, whatever the product of the decimal odds and whichever of the
\* fields sport, win_prob, ev_dec and risk the legs lack.
C25_ParlayNeverRaises ==
    (Returned("calculate_parlay") /\ call.legs # <<>>) =>
        /\ ~Raised(Result)
        /\ Result.num_legs = Len(call.legs)

\* what the page shows for the legs of the returned calculate_parlay call
BrowserSlip == recalcSlip(call.legs)

\* C26: the slip the page computes and the server's calculate_parlay agree
\* on every non-empty leg list: combined probability, American odds, EV,
\* Kelly stake, HIGH-leg count, grade and the warnings triggered.
C26_BrowserSlipMatchesServer ==
    (Returned("calculate_parlay") /\ call.legs # <<>>) =>
        /\ ~Raised(Result)
        /\ ~isNaN(BrowserSlip.probability)
        /\ REq(BrowserSlip.probability, Result.combined_prob)
        /\ BrowserSlip.american = Result.parlay_american
        /\ REq(BrowserSlip.ev, Result.ev)
        /\ REq(BrowserSlip.kelly, Result.kelly_pct)
        /\ BrowserSlip.kill_legs = Result.kill_legs
        /\ BrowserSlip.grade = Result.grade
        /\ BrowserSlip.warnings = Result.warnings

\* what the two feeds of the call returned, PrizePicks first
Combined == call.pp \o call.kl

\* the edges of picks do not increase along the list
EdgeDescending(picks) ==
    \A i \in 1..Len(picks) - 1 : RLe(picks[i + 1].edge, picks[i].edge)

\* no two picks of the list share the key
KeysDistinct(picks) ==
    \A i, j \in 1..Len(picks) :
        pick_key(picks[i]) = pick_key(picks[j]) => i = j

\* every pick of the list is one the feeds returned, and none of the feeds'
\* picks of the same key has a higher edge
HighestOfKey(picks) ==
    \A i \in 1..Len(picks) :
        /\ \E j \in 1..Len(Combined) : Combined[j] = picks[i]
        /\ \A j \in 1..Len(Combined) :
               pick_key(Combined[j]) = pick_key(picks[i])
                   => RLe(Combined[j].edge, picks[i].edge)

\* C27: get_all_picks returns BACKUP exactly when both feeds yield no pick;
\* otherwise at most 25 picks by non-increasing edge, no two of one key
\* (first 20 characters of player, stat, line), the pick kept for a key being
\* the one of the highest edge.
C27_AllPicksDedupedByEdge ==
    Returned("get_all_picks") =>
        /\ Result = BACKUP <=> Combined = <<>>
        /\ Combined # <<>> =>
               /\ Len(Result) <= 25
               /\ EdgeDescending(Result)
               /\ KeysDistinct(Result)
               /\ HighestOfKey(Result)

\* the feeds returned two picks of one key and different edges, and the one
\* returned is that of the higher edge
C27_Witness ==
    /\ Returned("get_all_picks")
    /\ \E i, j \in 1..Len(Combined) :
           /\ pick_key(Combined[i]) = pick_key(Combined[j])
           /\ RLt(Combined[i].edge, Combined[j].edge)
           /\ Result = <<Combined[j]>>

\* the feeds returned more than 25 picks of different keys
C27_Capped ==
    /\ Returned("get_all_picks")
    /\ Len(Combined) > 25
    /\ Len(Result) = 25

\* one of the bot's pick lists came back
PicksReturned ==
    \/ Returned("get_all_picks")
    \/ Returned("get_by_sport")
    \/ Returned("get_by_source")
    \/ Returned("get_top_picks")

\* the pick has an edge of MIN_EDGE or more and the grade that grade gives
\* to its edge, which is then not D
GradedByEdge(p) ==
    /\ RLe(MIN_EDGE, p.edge)
    /\ p.grade \in {"A+", "A", "B", "C"}
    /\ p.grade = grade(p.edge)

\* C29: every pick that get_all_picks, get_by_sport, get_by_source or
\* get_top_picks returns has edge >= MIN_EDGE, a grade among A+, A, B, C,
\* and the grade that grade(edge) gives; get_top_picks returns only picks
\* graded A+ or A, at most n of them; for live picks and for BACKUP.
C29_PicksGradedByEdge ==
    PicksReturned =>
        /\ \A i \in 1..Len(Result) : GradedByEdge(Result[i])
        /\ Returned("get_top_picks") =>
               /\ Len(Result) <= call.n
               /\ \A i \in 1..Len(Result) : Result[i].grade \in {"A+", "A"}

\* the page is shown
PageShown == page # <<>>

\* the ids of the legs of a slip
LegIds(legs) == {legs[i].id : i \in 1..Len(legs)}

\* the slip holds each pick id at most once, the count shown is the number
\* of its legs and the result rendered is that of exactly its legs
SlipConsistent ==
    /\ \A i, j \in 1..Len(page.parlayLegs) :
           page.parlayLegs[i].id = page.parlayLegs[j].id => i = j
    /\ page.s_parlay = Len(page.parlayLegs)
    /\ page.parlay_result = recalcSlip(page.parlayLegs)

\* the slip after the pick p was toggled twice
ToggledTwice(p) == toggled(toggled(page.parlayLegs, p), p)

\* the picks the user can toggle: those of the cards (toggleLeg), of the
\* prop buttons (toggleProp) and of the Kalshi cards (toggleKalshi)
Toggleable ==
    pick_cards(page)
        \cup {page._propMap[id] : id \in prop_buttons(page)}
        \cup {page._kalshiMap[id] : id \in page.kalshi_grid}

\* C28: after any sequence of toggleLeg, toggleProp, toggleKalshi,
\* removeLeg, clearSlip and data reloads, the slip holds each pick id at
\* most once, the 'Parlay Legs' count is the number of legs, the rendered
\* result is the one computed from exactly those legs, and toggling the
\* same pick twice restores the previous slip.
C28_SlipConsistentAndToggleInvolutive ==
    PageShown =>
        /\ SlipConsistent
        /\ \A p \in Toggleable : ToggledTwice(p) = page.parlayLegs

\* C28 as the page does it: the slip is consistent; toggling twice a pick
\* whose id is not in the slip restores the slip; toggling twice a pick whose
\* id is in the slip leaves the other legs in their order and puts the pick
\* as the page now has it last.
C28_SlipConsistentAndToggleRefreshes ==
    PageShown =>
        /\ SlipConsistent
        /\ \A p \in Toggleable :
               /\ ~has_leg(page.parlayLegs, p.id)
                      => ToggledTwice(p) = page.parlayLegs
               /\ has_leg(page.parlayLegs, p.id)
                      => ToggledTwice(p)
                           = Append(delete_leg(page.parlayLegs, p.id), p)

\* after a reload the slip of two legs holds a pick as the earlier slate had
\* it, the result shown is that of the two legs, and toggling the pick of
\* the new slate twice changes the slip
C28_Witness ==
    /\ PageShown
    /\ call.fn = "loadData"
    /\ Len(page.parlayLegs) = 2
    /\ page.s_parlay = 2
    /\ page.parlay_result = recalcSlip(page.parlayLegs)
    /\ \E p \in pick_cards(page) :
           /\ \E i \in 1..2 :
                  /\ page.parlayLegs[i].id = p.id
                  /\ page.parlayLegs[i] # p
           /\ LegIds(ToggledTwice(p)) = LegIds(page.parlayLegs)
           /\ ToggledTwice(p) # page.parlayLegs

\* the legs of the parlay that build_optimal_parlay returned: none in {}
OptimalLegs == IF Result = EmptyDict THEN <<>> ELSE Result.legs

\* C30: whenever the pool holds a pick with positive EV that is not HIGH
\* risk, the parlay build_optimal_parlay returns holds no HIGH-risk leg and
\* no leg without edge: its kill-leg count is 0, it carries no HIGH-risk
\* warning and its grade is A or C ({} when max_legs is 0).
C30_OptimalParlayAvoidsKillLegs ==
    (Returned("build_optimal_parlay") /\ EvCandidates # {}) =>
        /\ ~Raised(Result)
        /\ \A i \in 1..Len(OptimalLegs) :
               /\ Get(OptimalLegs[i], "risk", "") # "HIGH"
               /\ Get(OptimalLegs[i], "has_edge", FALSE)
        /\ IF Result = EmptyDict
           THEN call.max_legs = 0
           ELSE /\ Result.kill_legs = 0
                /\ \A w \in 1..Len(Result.warnings) :
                       Result.warnings[w].kind # "high_risk"
                /\ Result.grade \in {"A", "C"}

\* a pool of one pick that passes the filter, one HIGH-risk pick of a higher
\* win probability and one pick without edge gave a parlay of the one pick
C30_Witness ==
    /\ Returned("build_optimal_parlay")
    /\ Cardinality(EvCandidates) = 1
    /\ Len(call.all_picks) = 3
    /\ \E i, j \in 1..3 :
           /\ Get(call.all_picks[i], "risk", "") = "HIGH"
           /\ Get(call.all_picks[i], "has_edge", FALSE)
           /\ ~Get(call.all_picks[j], "has_edge", FALSE)
    /\ call.max_legs = 2
    /\ ~Raised(Result)
    /\ Result.num_legs = 1
    /\ Result.kill_legs = 0
    /\ Result.grade \in {"A", "C"}

====
